---- MODULE Spec2Model ----
(***************************************************************************)
(* A model of go-image-builder: the Build pipeline (pkg/builder), the      *)
(* buildah backend adapter (pkg/oci), and the OCI image composer           *)
(* (pkg/image) with its registry push.                                     *)
(*                                                                         *)
(* Strings that the code splits, trims or scans are sequences of           *)
(* one-character strings, so that strings.Split and strings.TrimSpace are  *)
(* computed, not assumed.                                                  *)
(*                                                                         *)
(* An image of go-containerregistry is the triple the library keeps: the   *)
(* config file (history, rootfs.diff_ids, labels) and the manifest's layer *)
(* list.  mutate.ConfigFile replaces the config file and keeps the         *)
(* manifest; mutate.Append adds, for every addendum, one history entry     *)
(* (the addendum's History, empty when AppendLayers built the addendum),   *)
(* one diff id and one manifest layer.  Image.Layers() walks the diff ids. *)
(***************************************************************************)
EXTENDS Integers, Sequences, FiniteSets, TLC

VARIABLES
    recipe,           \* imageconfig.Config fields the pipeline reads, plus the CLI flags
    parentStored,     \* the image local storage holds under recipe.parent
    pc,               \* position of Build
    result,           \* what Build returned: "none" while running, "ok", "err"
    storage,          \* containers present in backend storage
    mounted,          \* containers currently mounted
    containerName,    \* Build's local containerName
    mountPoint,       \* Build's local mountPoint
    oci,              \* OCI.parentContainer / OCI.parentMountPoint
    kernelVersion,    \* packageImage's local kernelVersion
    initrdPath,       \* packageImage's local initrdPath
    img,              \* Image.img, or NoImage before NewImage
    tempDirs,         \* Image.tempDirs
    parentArchive,    \* Image.parentArchive
    hostFiles,        \* temp directories and files existing on the host
    log,              \* backend / package manager / composer operations, in order
    tags,             \* Push's local tags
    tagIdx,           \* index of the tag the push loop is at
    attempt,          \* pushTagWithRetries' loop variable
    lastErr,          \* pushTagWithRetries' lastErr
    pushLog,          \* registry operations, in order
    call,             \* an operation called on its own, with its arguments
    disk,             \* files and directories the called operation works on
    ret,              \* what the called operation returned, "none" before
    proc,             \* the child process of the called operation and its pipes
    builds            \* the Builds running side by side on one backend storage

vars == <<recipe, parentStored, pc, result, storage, mounted, containerName,
          mountPoint, oci, kernelVersion, initrdPath, img, tempDirs,
          parentArchive, hostFiles, log, tags, tagIdx, attempt, lastErr,
          pushLog,
          call, disk, ret, proc, builds>>

(***************************************************************************)
(* Bounds                                                                  *)
(***************************************************************************)
MaxCmds == 1

(***************************************************************************)
(* strings                                                                 *)
(***************************************************************************)
Whitespace == {" ", "\n", "\t"}

RECURSIVE TrimLeft(_)
TrimLeft(s) ==
    IF s # <<>> /\ Head(s) \in Whitespace THEN TrimLeft(Tail(s)) ELSE s

RECURSIVE TrimRight(_)
TrimRight(s) ==
    IF s # <<>> /\ s[Len(s)] \in Whitespace
    THEN TrimRight(SubSeq(s, 1, Len(s) - 1))
    ELSE s

TrimSpace(s) == TrimRight(TrimLeft(s))

\* strings.Split(s, sep) for a one-character sep: the pieces between the
\* separators, so a string without separator (also the empty one) gives one piece
RECURSIVE SplitFrom(_, _, _)
SplitFrom(s, sep, cur) ==
    IF s = <<>> THEN <<cur>>
    ELSE IF Head(s) = sep THEN <<cur>> \o SplitFrom(Tail(s), sep, <<>>)
    ELSE SplitFrom(Tail(s), sep, Append(cur, Head(s)))

Split(s, sep) == SplitFrom(s, sep, <<>>)

\* strings.Contains on an error text kept as a sequence of words
Contains(text, word) == \E k \in 1..Len(text) : text[k] = word

\* the test `Parent == "" || Parent == "scratch"` made all over the code
IsScratch(parent) == parent = "" \/ parent = "scratch"

(***************************************************************************)
(* go-containerregistry images as pkg/image uses them                      *)
(***************************************************************************)
\* label values are strings kept as sequences; Absent marks a key not in the map
Absent == <<"<absent>">>

NoLabels == [kernel |-> Absent, os |-> Absent, parent |-> Absent, host |-> Absent]

\* empty.Image with the config file NewImage stamps on it
EmptyImage == [history |-> <<>>, diffIDs |-> <<>>, manifest |-> <<>>, labels |-> NoLabels]

NoImage == [none |-> TRUE]

\* a layer is the name it was materialised under and the build that made it
\* (gen 0 is the running build); two layers have the same digest iff equal
Layer(name, gen) == [name |-> name, gen |-> gen]

\* img.ConfigFile(): a copy of the config file
ConfigFile(i) == [history |-> i.history, diffIDs |-> i.diffIDs, labels |-> i.labels]

\* img.Layers(): the layers the config's diff ids name
Layers(i) == i.diffIDs

\* mutate.ConfigFile(img, cfg): cfg becomes the config file, the manifest stays
MutateConfigFile(i, cf) ==
    [history |-> cf.history, diffIDs |-> cf.diffIDs, manifest |-> i.manifest,
     labels |-> cf.labels]

\* mutate.Append(img, Addendum{Layer, History})
MutateAppend(i, layer, comment) ==
    [history |-> Append(i.history, comment),
     diffIDs |-> Append(i.diffIDs, layer),
     manifest |-> Append(i.manifest, layer),
     labels |-> i.labels]

\* mutate.AppendLayers(img, layer): an addendum with the zero History
MutateAppendLayers(i, layer) == MutateAppend(i, layer, "")

(***************************************************************************)
(* pkg/image: the composer's layer operations, as they change Image.img    *)
(***************************************************************************)
BaseComment == "Base OS Layer"
ConfigComment == "Configuration Layer"
KernelComment == "Kernel Layer"
InitrdComment == "Initrd Layer"

Hostname == <<"buildhost">>
OsReleaseID == <<"rocky">>

\* an AddBaseLayer that assigns the os labels whether or not it read os-release
\* (the lookups in the empty osInfo map give the empty string)
AddBaseLayerImgAlwaysLabels(i, parent, osRelease, gen) ==
    LET config == ConfigFile(i)
        l1 == [config.labels EXCEPT !.os = IF osRelease = "present" THEN OsReleaseID
                                           ELSE <<"">>]
        l2 == IF ~IsScratch(parent) THEN [l1 EXCEPT !.parent = <<parent>>] ELSE l1
        l3 == [l2 EXCEPT !.host = Hostname]
        config2 == [config EXCEPT !.labels = l3,
                                  !.history = Append(config.history, BaseComment)]
    IN  MutateAppendLayers(MutateConfigFile(i, config2), Layer(BaseComment, gen))

\* Image.AddBaseLayer from "Get current config" on; osRelease is what reading
\* <rootfs>/etc/os-release gave: "present" or "absent"
AddBaseLayerImg(i, parent, osRelease, gen) ==
    LET config == ConfigFile(i)
        l1 == IF osRelease = "present"
              THEN [config.labels EXCEPT !.os = OsReleaseID]
              ELSE config.labels
        l2 == IF ~IsScratch(parent) THEN [l1 EXCEPT !.parent = <<parent>>] ELSE l1
        l3 == [l2 EXCEPT !.host = Hostname]
        config2 == [config EXCEPT !.labels = l3,
                                  !.history = Append(config.history, BaseComment)]
    IN  MutateAppendLayers(MutateConfigFile(i, config2), Layer(BaseComment, gen))

\* how the steps of an add*Layer after the archive end: all went through, one
\* before the mutate calls failed (os.Hostname, ConfigFile, Layers), or a
\* mutate call returned an error.  In `i.img, err = mutate.ConfigFile(i.img,
\* ...)` and `i.img, err = mutate.AppendLayers(i.img, ...)` the library returns
\* a nil image with the error and the assignment stores it.
LayerOutcomes == {"ok", "fail", "mutate"}

\* Image.AddBaseLayer as a whole: `archived` says whether tar and LayerFromFile
\* went through, osRelease what os.ReadFile gave ("present", "absent" for
\* IsNotExist, "error" for anything else), `rest` how the steps after it ended
AddBaseLayerRun(i, parent, archived, osRelease, rest, gen) ==
    IF archived /\ osRelease # "error" /\ rest = "ok"
    THEN [ok |-> TRUE, img |-> AddBaseLayerImg(i, parent, osRelease, gen)]
    ELSE IF archived /\ osRelease # "error" /\ rest = "mutate"
    THEN [ok |-> FALSE, img |-> NoImage]
    ELSE [ok |-> FALSE, img |-> i]

\* a composer that adds no configuration layer
AddNoConfigLayerImg(i, gen) == i

\* Image.AddConfigLayer from "Get current config" on
AddConfigLayerImg(i, gen) ==
    LET config == ConfigFile(i)
        config2 == [config EXCEPT !.history = Append(config.history, ConfigComment)]
    IN  MutateAppendLayers(MutateConfigFile(i, config2), Layer(ConfigComment, gen))

\* a HasLayerWithComment that takes every parent to carry the layer
HasLayerWithCommentAnyParent(i, parent, comment) == ~IsScratch(parent)

\* Image.HasLayerWithComment
HasLayerWithComment(i, parent, comment) ==
    IF IsScratch(parent) THEN FALSE
    ELSE \E k \in 1..Len(ConfigFile(i).history) : ConfigFile(i).history[k] = comment

\* the loop of findAndCopyLayerFromParent: the first history index holding the
\* comment, 0 when there is none (Go's -1; indices here start at 1)
HistoryIndex(history, comment) ==
    IF \E k \in 1..Len(history) : history[k] = comment
    THEN CHOOSE k \in 1..Len(history) :
            /\ history[k] = comment
            /\ \A j \in 1..(k - 1) : history[j] # comment
    ELSE 0

\* a findAndCopyLayerFromParent that takes an index beyond the layers for
\* "not found"
findAndCopyWithoutBoundsError(i, parent, layerComment) ==
    IF IsScratch(parent) THEN [status |-> "none", img |-> i]
    ELSE
    LET historyIndex == HistoryIndex(ConfigFile(i).history, layerComment)
    IN  IF historyIndex = 0 \/ historyIndex > Len(Layers(i))
        THEN [status |-> "none", img |-> i]
        ELSE [status |-> "copied",
              img |-> MutateConfigFile(
                          MutateAppend(i, Layers(i)[historyIndex],
                                       ConfigFile(i).history[historyIndex]),
                          ConfigFile(i))]

\* Image.findAndCopyLayerFromParent: [status, img] with status "none" (nothing
\* to copy), "err" (index out of bounds) or "copied"
findAndCopyLayerFromParent(i, parent, layerComment) ==
    IF IsScratch(parent) THEN [status |-> "none", img |-> i]
    ELSE
    LET parentConfig == ConfigFile(i)
        historyIndex == HistoryIndex(parentConfig.history, layerComment)
        parentLayers == Layers(i)
    IN  IF historyIndex = 0 THEN [status |-> "none", img |-> i]
        ELSE IF historyIndex > Len(parentLayers) THEN [status |-> "err", img |-> i]
        ELSE
        LET layerToAdd == parentLayers[historyIndex]
            historyToAdd == parentConfig.history[historyIndex]
            newConfig == ConfigFile(i)
            \* the only label key containing "kernel" is kernel-version; no
            \* label key contains "initrd"
            labels == IF layerComment = KernelComment /\ parentConfig.labels.kernel # Absent
                      THEN [newConfig.labels EXCEPT !.kernel = parentConfig.labels.kernel]
                      ELSE newConfig.labels
            appended == MutateAppend(i, layerToAdd, historyToAdd)
        IN  [status |-> "copied",
             img |-> MutateConfigFile(appended, [newConfig EXCEPT !.labels = labels])]

\* Image.AddKernelLayer, the fallback branch from "Get current config" on
AddKernelLayerImg(i, kver, gen) ==
    LET config == ConfigFile(i)
        config2 == [config EXCEPT !.labels = [config.labels EXCEPT !.kernel = kver],
                                  !.history = Append(config.history, KernelComment)]
    IN  MutateAppendLayers(MutateConfigFile(i, config2), Layer(KernelComment, gen))

\* Image.AddInitrdLayer, the fallback branch from "Get current config" on
AddInitrdLayerImg(i, gen) ==
    LET config == ConfigFile(i)
        config2 == [config EXCEPT !.history = Append(config.history, InitrdComment)]
    IN  MutateAppendLayers(MutateConfigFile(i, config2), Layer(InitrdComment, gen))

(***************************************************************************)
(* Inputs: recipes, the parent image in local storage, backend outputs     *)
(***************************************************************************)
ParentRef == "reg:5000/base/rocky:9"
Work == "work"
Stale == "stale"
ParentArchivePath == "parent-image.tar"
KernelFile == "kernel"
MountOutputs == {"/mnt/work", ""}

\* outputs of `ls /lib/modules`
LsOutputs == {<<>>, <<"5", "\n">>, <<"\n", " ", "6", " ", "\n", "5", "\n">>}

\* options.publish_tags values
PublishTagsInputs ==
    {<<>>,
     <<"a">>,
     <<"a", ",", "b", ",", "c">>,
     <<" ", "a", " ", ",", " ", ",", "b">>,
     <<",", " ">>,
     <<"a", " ", "b", ",", "c">>}

\* what packageImage assembles when every step succeeds, on a seed image
Compose(seed, parent, initrd, kver, gen) ==
    LET b == AddBaseLayerImg(seed, parent, "present", gen)
        c == AddConfigLayerImg(b, gen)
        kc == findAndCopyLayerFromParent(c, parent, KernelComment)
        k == IF kc.status = "copied" THEN kc.img ELSE AddKernelLayerImg(c, kver, gen)
        ic == findAndCopyLayerFromParent(k, parent, InitrdComment)
    IN  IF ~initrd THEN c
        ELSE IF ic.status = "copied" THEN ic.img ELSE AddInitrdLayerImg(k, gen)

\* an image this pipeline built from scratch with initrd
ScratchInitrdImage == Compose(EmptyImage, "scratch", TRUE, <<"5">>, 1)
\* an image this pipeline built from scratch without initrd
ScratchPlainImage == Compose(EmptyImage, "scratch", FALSE, <<>>, 1)
\* an image this pipeline built without initrd on top of ScratchInitrdImage
ChildPlainImage == Compose(ScratchInitrdImage, ParentRef, FALSE, <<>>, 2)
\* an image of four layers whose history entry k carries the name of layer k
AlignedImage ==
    LET names == <<BaseComment, ConfigComment, KernelComment, InitrdComment>>
        ls == [k \in 1..4 |-> Layer(names[k], 1)]
    IN  [history |-> names, diffIDs |-> ls, manifest |-> ls,
         labels |-> [NoLabels EXCEPT !.kernel = <<"5">>, !.os = OsReleaseID]]
\* an image some other tool built
ExternalImage ==
    [history |-> <<"imported">>, diffIDs |-> <<Layer("imported", 1)>>,
     manifest |-> <<Layer("imported", 1)>>,
     labels |-> [NoLabels EXCEPT !.os = OsReleaseID]]

ParentImages ==
    {ScratchInitrdImage, ScratchPlainImage, ChildPlainImage, AlignedImage, ExternalImage}

\* options.pkg_manager values
PackageManagerKinds == {"dnf", "zypper", "apt", "", "pacman"}

\* a NewBuilder that takes zypper for implemented
NewBuilderWithZypper(kind) ==
    IF kind \in {"dnf", "zypper"} THEN "ok"
    ELSE IF kind = "apt" THEN "apt support not implemented yet"
    ELSE "unsupported package manager: " \o kind

\* NewBuilder: the error it returns, "ok" when it returns a Builder
NewBuilderRun(kind) ==
    CASE kind = "dnf" -> "ok"
      [] kind = "zypper" -> "zypper support not implemented yet"
      [] kind = "apt" -> "apt support not implemented yet"
      [] OTHER -> "unsupported package manager: " \o kind

\* The recipes explored.  Push reads publish_tags and nothing of what
\* customizeContainer reads, so the two are varied in turn: every customization
\* without registry, every tag list with one customization.
Recipes ==
    { r \in [parent : {"", "scratch", ParentRef},
             initrd : BOOLEAN,
             squashfs : BOOLEAN,
             publishRegistry : {"", "reg:5000"},
             publishTags : PublishTagsInputs,
             packages : BOOLEAN,
             copyFiles : BOOLEAN,
             cmds : 0..MaxCmds,
             pkgManager : PackageManagerKinds] :
        /\ IF r.publishRegistry = ""
           THEN r.publishTags = <<>>
           ELSE r.packages /\ ~r.copyFiles /\ r.cmds = 0 /\ ~r.squashfs
        \* NewBuilder reads pkg_manager and nothing else
        /\ r.pkgManager # "dnf" =>
              (r.packages /\ ~r.copyFiles /\ r.cmds = 0 /\ ~r.squashfs /\ r.initrd
               /\ r.publishTags \in {<<>>, <<"a">>}) }

\* no operation is called on its own while Build runs
NoCall == [fn |-> "Build"]

\* no child process whose output is followed
NoProcess == [started |-> FALSE]

Init ==
    /\ recipe \in Recipes
    /\ parentStored \in (IF IsScratch(recipe.parent) THEN {NoImage} ELSE ParentImages)
    /\ pc = "new"
    /\ result = "none"
    /\ storage = {Stale}
    /\ mounted = {}
    /\ containerName = ""
    /\ mountPoint = ""
    /\ oci = [parentContainer |-> "", parentMountPoint |-> ""]
    /\ kernelVersion = <<>>
    /\ initrdPath = ""
    /\ img = NoImage
    /\ tempDirs = <<>>
    /\ parentArchive = ""
    \* <workDir>/kernel may be there from an earlier Build in the same workDir;
    \* only AddKernelLayer reads it, and a scratch Build writes it anew before.
    \* It is varied with one customization and without registry.
    /\ hostFiles \in (IF /\ recipe.initrd /\ ~IsScratch(recipe.parent)
                          /\ recipe.pkgManager = "dnf" /\ recipe.publishRegistry = ""
                          /\ recipe.packages /\ ~recipe.copyFiles /\ recipe.cmds = 0
                          /\ ~recipe.squashfs
                       THEN {{}, {KernelFile}} ELSE {{}})
    /\ log = <<>>
    /\ tags = <<>>
    /\ tagIdx = 0
    /\ attempt = 0
    /\ lastErr = <<>>
    /\ pushLog = <<>>
    /\ call = NoCall
    /\ builds = <<>>
    /\ disk = {}
    /\ ret = "none"
    /\ proc = NoProcess

(***************************************************************************)
(* Build: setupContainer                                                   *)
(***************************************************************************)
inputVars == <<recipe, parentStored, builds>>
backendVars == <<storage, mounted, oci>>
buildLocals == <<containerName, mountPoint>>
composerVars == <<img, tempDirs, parentArchive, hostFiles>>
packageLocals == <<kernelVersion, initrdPath>>
pushVars == <<tags, tagIdx, attempt, lastErr, pushLog>>
callVars == <<call, disk, ret, proc>>

Ev(verb, arg, ok) == [verb |-> verb, arg |-> arg, ok |-> ok]

RECURSIVE SetToSeq(_)
SetToSeq(S) ==
    IF S = {} THEN <<>>
    ELSE LET x == CHOOSE y \in S : TRUE IN <<x>> \o SetToSeq(S \ {x})

\* the stale-container sweep of PullParentImage and MountParent: `rm` on every
\* container the backend lists; removed are those whose rm succeeded (a failed
\* listing leaves storage as a sweep whose every rm failed does)
SweepEvents(present, removed) ==
    LET cs == SetToSeq(present)
    IN  [k \in 1..Len(cs) |-> Ev("rm", cs[k], cs[k] \in removed)]

\* Build returns an error before `defer b.oci.Cleanup(containerName)` is reached
ReturnBeforeDefer ==
    /\ pc' = "done"
    /\ result' = "err"

\* a return statement of Build after the defer: the deferred Cleanup is pending
Return(r) ==
    /\ pc' = "deferred"
    /\ result' = r

\* NewBuilder(config, ...): Build can be called only on the Builder it returns
NewBuilder ==
    /\ pc = "new"
    /\ ret' = NewBuilderRun(recipe.pkgManager)
    /\ pc' = IF NewBuilderRun(recipe.pkgManager) = "ok" THEN "start" ELSE "noBuilder"
    /\ UNCHANGED <<call, proc, disk, inputVars, result, backendVars, buildLocals, composerVars,
                   packageLocals, pushVars, log>>

\* a PullParentImage that pulls whether or not the image is present locally
PullAlways(parent, present, found, removed, pulled, verified) ==
    IF IsScratch(parent) THEN [events |-> <<>>, removed |-> {}, ok |-> TRUE]
    ELSE [events |-> <<Ev("inspect", parent, found), Ev("pull", parent, pulled)>>
                      \o (IF pulled THEN <<Ev("inspect", parent, verified)>> ELSE <<>>),
          removed |-> {},
          ok |-> pulled /\ verified]

\* OCI.PullParentImage on a backend whose storage holds the containers
\* `present`: the backend commands it issues, the containers its sweep removes
\* and whether it returns nil.  found, removed, pulled, verified are the
\* backend's answers: local inspect, the rm's that succeed, pull, second inspect
PullParentImageRun(parent, present, found, removed, pulled, verified) ==
    IF IsScratch(parent) THEN [events |-> <<>>, removed |-> {}, ok |-> TRUE]
    ELSE IF found
    THEN [events |-> <<Ev("inspect", parent, TRUE)>>, removed |-> {}, ok |-> TRUE]
    ELSE [events |-> <<Ev("inspect", parent, FALSE)>>
                      \o SweepEvents(present, removed)
                      \o <<Ev("prune", "", TRUE), Ev("pull", parent, pulled)>>
                      \o (IF pulled THEN <<Ev("inspect", parent, verified)>> ELSE <<>>),
          removed |-> removed,
          ok |-> pulled /\ verified]

\* the answers of the backend that make a difference to PullParentImage
PullAnswers(present) ==
    {a \in [found : BOOLEAN, removed : SUBSET present, pulled : BOOLEAN,
            verified : BOOLEAN] :
        /\ a.found => (a.removed = {} /\ a.pulled /\ a.verified)
        /\ ~a.pulled => a.verified}

\* OCI.PullParentImage, called by setupContainer for a non-scratch parent
PullParentImage ==
    /\ pc = "start"
    /\ ~IsScratch(recipe.parent)
    /\ \E a \in PullAnswers(storage) :
         LET run == PullParentImageRun(recipe.parent, storage, a.found, a.removed,
                                       a.pulled, a.verified)
         IN  /\ log' = log \o run.events
             /\ storage' = storage \ run.removed
             /\ mounted' = mounted \ run.removed
             /\ IF run.ok
                THEN pc' = "mountParent" /\ UNCHANGED result
                ELSE ReturnBeforeDefer
    /\ UNCHANGED <<callVars, inputVars, oci, buildLocals, composerVars, packageLocals,
                   pushVars>>

\* OCI.MountParent
MountParent ==
    /\ pc = "mountParent"
    /\ \E removed \in SUBSET storage, fromOk \in BOOLEAN,
          mountOk \in BOOLEAN, rmOk \in BOOLEAN, out \in MountOutputs :
         LET swept == SweepEvents(storage, removed)
             left == storage \ removed
         IN  /\ IF ~fromOk
                THEN /\ storage' = left
                     /\ mounted' = mounted \ removed
                     /\ log' = log \o swept \o <<Ev("from", recipe.parent, FALSE)>>
                     /\ oci' = oci
                     /\ ReturnBeforeDefer
                ELSE IF ~mountOk
                THEN /\ storage' = IF rmOk THEN left ELSE left \cup {Work}
                     /\ mounted' = mounted \ removed
                     /\ log' = log \o swept \o <<Ev("from", recipe.parent, TRUE),
                                                 Ev("mount", Work, FALSE),
                                                 Ev("rm", Work, rmOk)>>
                     /\ oci' = oci
                     /\ ReturnBeforeDefer
                ELSE /\ storage' = left \cup {Work}
                     /\ mounted' = (mounted \ removed) \cup {Work}
                     /\ log' = log \o swept \o <<Ev("from", recipe.parent, TRUE),
                                                 Ev("mount", Work, TRUE)>>
                     /\ oci' = [parentContainer |-> Work, parentMountPoint |-> out]
                     /\ pc' = "setupParentReturn"
                     /\ UNCHANGED result
    /\ UNCHANGED <<callVars, inputVars, buildLocals, composerVars, packageLocals, pushVars>>

\* OCI.UnmountParent: the result of umount, on the mounted set
UnmountParent(m, ok) == IF ok THEN m \ {oci.parentContainer} ELSE m

\* setupContainer after MountParent returned nil: the defer of UnmountParent,
\* the getters, the check for empty values, and the deferred call running as
\* setupContainer returns
setupContainerParent ==
    /\ pc = "setupParentReturn"
    /\ \E umountOk \in BOOLEAN :
         /\ mounted' = UnmountParent(mounted, umountOk)
         /\ log' = Append(log, Ev("umount", oci.parentContainer, umountOk))
    /\ IF oci.parentMountPoint = "" \/ oci.parentContainer = ""
       THEN /\ ReturnBeforeDefer
            /\ UNCHANGED buildLocals
       ELSE /\ mountPoint' = oci.parentMountPoint
            /\ containerName' = oci.parentContainer
            /\ pc' = "customize"
            /\ UNCHANGED result
    /\ UNCHANGED <<callVars, inputVars, storage, oci, composerVars, packageLocals, pushVars>>

\* OCI.CreateContainer, called by setupContainer for a scratch build
CreateContainer ==
    /\ pc = "start"
    /\ IsScratch(recipe.parent)
    /\ \E fromOk \in BOOLEAN :
         /\ log' = Append(log, Ev("from", "scratch", fromOk))
         /\ IF fromOk
            THEN /\ storage' = storage \cup {Work}
                 /\ pc' = "mountContainer"
                 /\ UNCHANGED result
            ELSE /\ ReturnBeforeDefer
                 /\ UNCHANGED storage
    /\ UNCHANGED <<callVars, inputVars, mounted, oci, buildLocals, composerVars, packageLocals,
                   pushVars>>

\* OCI.MountContainer and the checks setupContainer makes on what it returned
MountContainer ==
    /\ pc = "mountContainer"
    /\ \E mountOk \in BOOLEAN, rmOk \in BOOLEAN, out \in MountOutputs :
         IF ~mountOk
         THEN /\ storage' = IF rmOk THEN storage \ {Work} ELSE storage
              /\ log' = log \o <<Ev("mount", Work, FALSE), Ev("rm", Work, rmOk)>>
              /\ ReturnBeforeDefer
              /\ UNCHANGED <<mounted, buildLocals>>
         ELSE /\ mounted' = mounted \cup {Work}
              /\ log' = Append(log, Ev("mount", Work, TRUE))
              /\ UNCHANGED storage
              /\ IF out = ""
                 THEN /\ ReturnBeforeDefer
                      /\ UNCHANGED buildLocals
                 ELSE /\ containerName' = Work
                      /\ mountPoint' = out
                      /\ pc' = "customize"
                      /\ UNCHANGED result
    /\ UNCHANGED <<callVars, inputVars, oci, composerVars, packageLocals, pushVars>>

(***************************************************************************)
(* Build: customizeContainer                                               *)
(***************************************************************************)
\* a customization that sets up the repositories for every recipe
customizeStepsWithRepos(r) ==
    <<"InitRootfs", "AddRepos">>
    \o (IF r.packages THEN <<"InstallPackages">> ELSE <<>>)
    \o (IF r.copyFiles THEN <<"CopyFiles">> ELSE <<>>)
    \o [k \in 1..r.cmds |-> "RunCommand"]

\* the package-manager calls customizeContainer makes for a recipe, in order
customizeSteps(r) ==
    (IF r.packages THEN <<"InitRootfs", "AddRepos", "InstallPackages">> ELSE <<>>)
    \o (IF r.copyFiles THEN <<"CopyFiles">> ELSE <<>>)
    \o [k \in 1..r.cmds |-> "RunCommand"]

\* DNF.RunCommand: the program it starts with the command as `sh -c` argument
RunCommandProgram == "chroot"

\* customizeContainer: the calls run in order and the first failure returns;
\* a call is logged with the rootfs it works on, RunCommand with the program
\* that runs the command
customizeContainer ==
    /\ pc = "customize"
    /\ LET steps == customizeSteps(recipe)
           on == [k \in 1..Len(steps) |->
                    IF steps[k] = "RunCommand" THEN RunCommandProgram ELSE mountPoint]
       IN  \E n \in 0..Len(steps), ok \in BOOLEAN :
             \* n calls succeed; with ~ok call n+1 fails
             /\ ok <=> n = Len(steps)
             /\ log' = log \o [k \in 1..n |-> Ev(steps[k], on[k], TRUE)]
                           \o (IF ok THEN <<>> ELSE <<Ev(steps[n + 1], on[n + 1], FALSE)>>)
             /\ IF ok THEN pc' = "package" /\ UNCHANGED result ELSE Return("err")
    /\ UNCHANGED <<callVars, inputVars, backendVars, buildLocals, composerVars, packageLocals,
                   pushVars>>

(***************************************************************************)
(* Build: packageImage                                                     *)
(***************************************************************************)
\* the loop of getKernelVersion over the lines of `ls /lib/modules`: the first
\* line that is not empty after trimming, <<>> when there is none
RECURSIVE FirstNonEmpty(_)
FirstNonEmpty(lines) ==
    IF lines = <<>> THEN <<>>
    ELSE IF TrimSpace(Head(lines)) # <<>> THEN TrimSpace(Head(lines))
    ELSE FirstNonEmpty(Tail(lines))

getKernelVersion(output) == FirstNonEmpty(Split(output, "\n"))

\* packageImage, lines 192-197
GetKernelVersion ==
    /\ pc = "package"
    /\ IF recipe.initrd
       THEN \E runOk \in BOOLEAN, output \in LsOutputs :
              /\ log' = Append(log, Ev("run", "ls /lib/modules", runOk))
              /\ IF runOk /\ getKernelVersion(output) # <<>>
                 THEN /\ kernelVersion' = getKernelVersion(output)
                      /\ pc' = "loadParent"
                      /\ UNCHANGED result
                 ELSE /\ Return("err")
                      /\ UNCHANGED kernelVersion
       ELSE /\ pc' = "loadParent"
            /\ UNCHANGED <<log, kernelVersion, result>>
    /\ UNCHANGED <<callVars, inputVars, backendVars, buildLocals, composerVars, initrdPath,
                   pushVars>>

\* a packageImage that removes the archive as soon as the image is loaded from it
ParentArchiveRemovedOnceLoaded(files, path, created, ok) == files \ {path}

\* packageImage, lines 205-226: the host after os.CreateTemp, SaveImage and
\* tarball.ImageFromPath; os.Remove takes the file away when saving or loading
\* failed
ParentArchiveFile(files, path, created, ok) ==
    IF ~created THEN files
    ELSE IF ok THEN files \cup {path}
    ELSE (files \cup {path}) \ {path}

\* packageImage, lines 199-234: the parent archive, and NewImage
LoadParentImage ==
    /\ pc = "loadParent"
    /\ IF ~IsScratch(recipe.parent)
       THEN \E created \in BOOLEAN, saved \in BOOLEAN, loaded \in BOOLEAN :
              IF created /\ saved /\ loaded
              THEN /\ hostFiles' = ParentArchiveFile(hostFiles, ParentArchivePath, TRUE, TRUE)
                   /\ parentArchive' = ParentArchivePath
                   /\ img' = parentStored
                   /\ log' = Append(log, Ev("push", "docker-archive", TRUE))
                   /\ pc' = "addBase"
                   /\ UNCHANGED result
              ELSE \* os.Remove(parentArchivePath) on a failed save or load
                   /\ log' = IF created THEN Append(log, Ev("push", "docker-archive", saved))
                              ELSE log
                   /\ hostFiles' = ParentArchiveFile(hostFiles, ParentArchivePath, created,
                                                    FALSE)
                   /\ Return("err")
                   /\ UNCHANGED <<parentArchive, img>>
       ELSE /\ img' = EmptyImage
            /\ pc' = "addBase"
            /\ UNCHANGED <<hostFiles, parentArchive, log, result>>
    /\ UNCHANGED <<callVars, inputVars, backendVars, buildLocals, tempDirs, packageLocals,
                   pushVars>>

\* os.MkdirTemp and os.RemoveAll on the host
MkdirTemp(files, dir) == files \cup {dir}

RemoveAll(files, dir) == files \ {dir}

\* an add*Layer that leaves its temp directory behind when it fails
StagedAndKept(files, dir, success) == MkdirTemp(files, dir)

\* the host after an add*Layer that made its temp directory: the deferred
\* function removes the directory unless success was set
Staged(files, dir, success) ==
    IF success THEN MkdirTemp(files, dir) ELSE RemoveAll(MkdirTemp(files, dir), dir)

\* a successful add*Layer records its temp directory
Recorded(dir) ==
    /\ tempDirs' = Append(tempDirs, dir)
    /\ hostFiles' = Staged(hostFiles, dir, TRUE)

\* an add*Layer that fails after it made its temp directory records nothing
Discarded(dir) ==
    /\ tempDirs' = tempDirs
    /\ hostFiles' = Staged(hostFiles, dir, FALSE)

\* Image.AddBaseLayer(mountPoint), called at line 236
AddBaseLayer ==
    /\ pc = "addBase"
    /\ \E archived \in BOOLEAN, osRelease \in {"present", "absent", "error"},
          rest \in LayerOutcomes :
         \* the rootfs is visible under mountPoint only while the container is mounted
         /\ osRelease = "present" => containerName \in mounted
         /\ LET run == AddBaseLayerRun(img, recipe.parent, archived, osRelease, rest, 0)
            IN  /\ log' = Append(log, Ev("AddBaseLayer", mountPoint, run.ok))
                /\ img' = run.img
                /\ IF run.ok
                   THEN /\ Recorded("base-layer")
                        /\ pc' = "addConfig"
                        /\ UNCHANGED result
                   ELSE /\ Return("err")
                        /\ Discarded("base-layer")
    /\ UNCHANGED <<callVars, inputVars, backendVars, buildLocals, parentArchive, packageLocals,
                   pushVars>>

\* Image.AddConfigLayer(), called at line 240
AddConfigLayer ==
    /\ pc = "addConfig"
    /\ \E how \in LayerOutcomes :
         /\ log' = Append(log, Ev("AddConfigLayer", "", how = "ok"))
         /\ IF how = "ok"
            THEN /\ img' = AddConfigLayerImg(img, 0)
                 /\ Recorded("config-layer")
                 /\ pc' = IF recipe.initrd THEN "initrd" ELSE "squashfs"
                 /\ UNCHANGED result
            ELSE /\ Return("err")
                 /\ Discarded("config-layer")
                 /\ img' = IF how = "mutate" THEN NoImage ELSE img
    /\ UNCHANGED <<callVars, inputVars, backendVars, buildLocals, parentArchive, packageLocals,
                   pushVars>>

\* packageImage, lines 244-269: reuse the parent's initrd or run dracut and
\* look for the file it wrote under mountPoint
PrepareInitrd ==
    /\ pc = "initrd"
    /\ IF HasLayerWithComment(img, recipe.parent, InitrdComment)
       THEN /\ initrdPath' = ""
            /\ pc' = IF IsScratch(recipe.parent) THEN "extractKernel" ELSE "addKernel"
            /\ UNCHANGED <<log, result>>
       ELSE \E dracutOk \in BOOLEAN, logOk \in BOOLEAN,
               file \in {"initramfs-<ver>.img", "initrd.img", ""} :
              \* os.Stat sees the rootfs only while the container is mounted
              /\ file # "" => containerName \in mounted
              /\ log' = log \o <<Ev("run", "dracut", dracutOk)>>
                            \o (IF dracutOk THEN <<Ev("run", "cat dracut.log", logOk)>>
                                ELSE <<>>)
              /\ IF dracutOk /\ logOk /\ file # ""
                 THEN /\ initrdPath' = file
                      /\ pc' = IF IsScratch(recipe.parent) THEN "extractKernel"
                                ELSE "addKernel"
                      /\ UNCHANGED result
                 ELSE /\ Return("err")
                      /\ UNCHANGED initrdPath
    /\ UNCHANGED <<callVars, inputVars, backendVars, buildLocals, composerVars, kernelVersion,
                   pushVars>>

\* Builder.extractKernel, called at line 274 for a scratch build
extractKernel ==
    /\ pc = "extractKernel"
    /\ \E found \in BOOLEAN, copied \in BOOLEAN :
         /\ log' = log \o <<Ev("run", "stat vmlinuz", found)>>
                       \o (IF found THEN <<Ev("run", "cat vmlinuz", copied)>> ELSE <<>>)
         \* CopyFromContainerWithCat creates the host file before it runs cat
         /\ hostFiles' = IF found THEN hostFiles \cup {KernelFile} ELSE hostFiles
         /\ IF found /\ copied
            THEN pc' = "addKernel" /\ UNCHANGED result
            ELSE Return("err")
    /\ UNCHANGED <<callVars, inputVars, backendVars, buildLocals, img, tempDirs, parentArchive,
                   packageLocals, pushVars>>

\* Image.AddKernelLayer(kernelPath, kernelVersion), called at line 280
AddKernelLayer ==
    /\ pc = "addKernel"
    /\ LET found == findAndCopyLayerFromParent(img, recipe.parent, KernelComment)
       IN  IF found.status = "err"
           THEN /\ log' = Append(log, Ev("AddKernelLayer", "copy", FALSE))
                /\ Return("err")
                /\ UNCHANGED <<img, tempDirs, hostFiles>>
           ELSE IF found.status = "copied"
           THEN /\ log' = Append(log, Ev("AddKernelLayer", "copy", TRUE))
                /\ img' = found.img
                /\ pc' = "addInitrd"
                /\ UNCHANGED <<result, tempDirs, hostFiles>>
           ELSE \E how \in LayerOutcomes :
                  \* os.ReadFile(kernelPath) needs the file
                  /\ how # "fail" => KernelFile \in hostFiles
                  /\ log' = Append(log, Ev("AddKernelLayer", "new", how = "ok"))
                  /\ IF how = "ok"
                     THEN /\ img' = AddKernelLayerImg(img, kernelVersion, 0)
                          /\ Recorded("kernel-layer")
                          /\ pc' = "addInitrd"
                          /\ UNCHANGED result
                     ELSE /\ Return("err")
                          /\ Discarded("kernel-layer")
                          /\ img' = IF how = "mutate" THEN NoImage ELSE img
    /\ UNCHANGED <<callVars, inputVars, backendVars, buildLocals, parentArchive, packageLocals,
                   pushVars>>

\* Image.AddInitrdLayer(initrdPath), called at line 283
AddInitrdLayer ==
    /\ pc = "addInitrd"
    /\ LET found == findAndCopyLayerFromParent(img, recipe.parent, InitrdComment)
       IN  IF found.status = "err"
           THEN /\ log' = Append(log, Ev("AddInitrdLayer", "copy", FALSE))
                /\ Return("err")
                /\ UNCHANGED <<img, tempDirs, hostFiles>>
           ELSE IF found.status = "copied"
           THEN /\ log' = Append(log, Ev("AddInitrdLayer", "copy", TRUE))
                /\ img' = found.img
                /\ pc' = "squashfs"
                /\ UNCHANGED <<result, tempDirs, hostFiles>>
           ELSE \E how \in LayerOutcomes :
                  \* os.ReadFile(initrdPath) fails on the empty path
                  /\ how # "fail" => initrdPath # ""
                  /\ log' = Append(log, Ev("AddInitrdLayer", "new", how = "ok"))
                  /\ IF how = "ok"
                     THEN /\ img' = AddInitrdLayerImg(img, 0)
                          /\ Recorded("initrd-layer")
                          /\ pc' = "squashfs"
                          /\ UNCHANGED result
                     ELSE /\ Return("err")
                          /\ Discarded("initrd-layer")
                          /\ img' = IF how = "mutate" THEN NoImage ELSE img
    /\ UNCHANGED <<callVars, inputVars, backendVars, buildLocals, parentArchive, packageLocals,
                   pushVars>>

\* a Build that pushes whether or not a registry is configured
AfterPackagingAlwaysPush(publishRegistry) == "push"

\* Build, line 86: push only when options.publish_registry is set
AfterPackaging(publishRegistry) == IF publishRegistry # "" THEN "push" ELSE "teardown"

\* packageImage, lines 288-296, and Build's test of PublishRegistry at line 86
createSquashfs ==
    /\ pc = "squashfs"
    /\ \E ok \in BOOLEAN :
         /\ ~recipe.squashfs => ok
         /\ log' = IF recipe.squashfs THEN Append(log, Ev("mksquashfs", mountPoint, ok))
                    ELSE log
         /\ IF ok
            THEN /\ pc' = AfterPackaging(recipe.publishRegistry)
                 /\ UNCHANGED result
            ELSE Return("err")
    /\ UNCHANGED <<callVars, inputVars, backendVars, buildLocals, composerVars, packageLocals,
                   pushVars>>

(***************************************************************************)
(* Image.Push                                                              *)
(***************************************************************************)
maxRetries == 3

BlobUploadUnknown == "BLOB_UPLOAD_UNKNOWN"

\* what crane.Push returns: <<>> for nil, else the words of the error text
PushOk == <<>>
PushErrors ==
    {<<"PUT", "https://reg:5000/v2/base/blobs/uploads/1", BlobUploadUnknown,
       "blob upload unknown to registry">>,
     <<"UNAUTHORIZED", "authentication required">>}

\* baseRef.Identifier() of a reference without tag
DefaultTag == <<"latest">>

\* Push, lines 622-625: the tag list before trimming
publishTagList(publishTags) ==
    LET split == Split(publishTags, ",")
    IN  IF Len(split) = 0 \/ (Len(split) = 1 /\ split[1] = <<>>)
        THEN <<DefaultTag>>
        ELSE split

\* name.NewTag accepts a tag without white space
ValidTag(tag) == \A k \in 1..Len(tag) : tag[k] \notin Whitespace

Reg(op, tag, att, slept, res) ==
    [op |-> op, tag |-> tag, attempt |-> att, slept |-> slept, res |-> res]

\* an ensureParentImage that pushes the parent whether or not the registry has it
ensureParentImagePushAlways(parent, parsed, found, pushed) ==
    IF IsScratch(parent) THEN <<>>
    ELSE IF ~parsed THEN <<Reg("parseParent", <<parent>>, 0, 0, <<"could not parse reference">>)>>
    ELSE <<Reg("manifest", <<parent>>, 0, 0, IF found THEN PushOk ELSE <<"MANIFEST_UNKNOWN">>),
           Reg("pushParent", <<parent>>, 0, 0,
               IF pushed THEN PushOk ELSE <<"UNAUTHORIZED", "authentication required">>)>>

\* Image.ensureParentImage: the steps it takes that can fail, in order (the
\* parse of the parent reference is listed when it fails)
ensureParentImage(parent, parsed, found, pushed) ==
    IF IsScratch(parent) THEN <<>>
    ELSE IF ~parsed THEN <<Reg("parseParent", <<parent>>, 0, 0, <<"could not parse reference">>)>>
    ELSE IF found THEN <<Reg("manifest", <<parent>>, 0, 0, PushOk)>>
    ELSE <<Reg("manifest", <<parent>>, 0, 0, <<"MANIFEST_UNKNOWN">>),
           Reg("pushParent", <<parent>>, 0, 0,
               IF pushed THEN PushOk ELSE <<"UNAUTHORIZED", "authentication required">>)>>

\* Image.ensureParentImage returns an error
ensureParentImageFailed(parent, parsed, found, pushed) ==
    /\ ~IsScratch(parent)
    /\ ~parsed \/ (~found /\ ~pushed)

\* a Push that gives up when the parent could not be ensured
PushGoesOnIfParentEnsured(refParsed, parentFailed) == refParsed /\ ~parentFailed

\* Push, lines 609-619: whether Push goes on to the tag list; the error of
\* ensureParentImage is logged as a warning and dropped
PushGoesOn(refParsed, parentFailed) == refParsed

\* Push, lines 607-626: parse the reference, ensureParentImage, build the tag list
PushStart ==
    /\ pc = "push"
    /\ \E refParsed \in BOOLEAN, parentParsed \in BOOLEAN, found \in BOOLEAN,
          pushed \in BOOLEAN :
         /\ pushLog' = IF refParsed
                       THEN pushLog \o ensureParentImage(recipe.parent, parentParsed,
                                                         found, pushed)
                       ELSE pushLog
         /\ IF PushGoesOn(refParsed, ensureParentImageFailed(recipe.parent, parentParsed,
                                                             found, pushed))
            THEN /\ tags' = publishTagList(recipe.publishTags)
                 /\ tagIdx' = 1
                 /\ pc' = "pushLoop"
                 /\ UNCHANGED <<result, attempt, lastErr>>
            ELSE /\ Return("err")
                 /\ UNCHANGED <<tags, tagIdx, attempt, lastErr>>
    /\ UNCHANGED <<callVars, inputVars, backendVars, buildLocals, composerVars, packageLocals, log>>

\* the tag the push loop is at, trimmed (line 630)
CurrentTag == TrimSpace(tags[tagIdx])

\* Push, lines 629-640: one turn of the loop over tags up to the call of
\* pushTagWithRetries and the creation of the tag reference in it
PushLoop ==
    /\ pc = "pushLoop"
    /\ IF tagIdx > Len(tags)
       THEN \* Push returns nil
            /\ pc' = "teardown"
            /\ UNCHANGED <<result, pushVars>>
       ELSE IF CurrentTag = <<>>
       THEN /\ tagIdx' = tagIdx + 1
            /\ UNCHANGED <<pc, result, tags, attempt, lastErr, pushLog>>
       ELSE IF ~ValidTag(CurrentTag)
       THEN /\ Return("err")
            /\ UNCHANGED pushVars
       ELSE /\ attempt' = 0
            /\ lastErr' = <<>>
            /\ pc' = "pushAttempt"
            /\ UNCHANGED <<result, tags, tagIdx, pushLog>>
    /\ UNCHANGED <<callVars, inputVars, backendVars, buildLocals, composerVars, packageLocals, log>>

\* a backoff that also sleeps before the first attempt
BackoffEveryAttempt(att) == 2 * (att + 1)

\* a backoff of two seconds before every retry
BackoffConstant(att) == IF att > 0 THEN 2 ELSE 0

\* the backoff pushTagWithRetries sleeps before an attempt (seconds)
Backoff(att) == IF att > 0 THEN 2 * att ELSE 0

\* a classification that retries after any error
RetryableAlways(err) == TRUE

\* a classification that retries after every error that has a text
RetryableAnyText(err) == Len(err) > 0

\* whether pushTagWithRetries tries again after an error
Retryable(err) == Contains(err, BlobUploadUnknown)

\* pushTagWithRetries, lines 684-708: one turn of the retry loop
PushAttempt ==
    /\ pc = "pushAttempt"
    /\ attempt < maxRetries
    /\ \E err \in {PushOk} \cup PushErrors :
         /\ pushLog' = Append(pushLog, Reg("push", CurrentTag, attempt, Backoff(attempt), err))
         /\ IF err = PushOk
            THEN /\ tagIdx' = tagIdx + 1
                 /\ pc' = "pushLoop"
                 /\ UNCHANGED <<result, attempt, lastErr>>
            ELSE /\ lastErr' = err
                 /\ attempt' = attempt + 1
                 /\ UNCHANGED tagIdx
                 /\ IF Retryable(err) /\ attempt + 1 < maxRetries
                    THEN UNCHANGED <<pc, result>>
                    ELSE Return("err")
    /\ UNCHANGED <<callVars, inputVars, backendVars, buildLocals, composerVars, packageLocals,
                   log, tags>>

(***************************************************************************)
(* Build: final cleanup and the deferred backend Cleanup                   *)
(***************************************************************************)
Range(seq) == {seq[k] : k \in 1..Len(seq)}

\* Image.Cleanup: what is left on the host
ImageCleanup(files) ==
    files \ (Range(tempDirs) \cup (IF parentArchive # "" THEN {parentArchive} ELSE {}))

\* a Build that does not look at what pm.Cleanup returned
BuildResultIgnoringCleanup(cleanupOk) == "ok"

\* what Build returns once every stage before the final cleanup went through
BuildResult(cleanupOk) == IF cleanupOk THEN "ok" ELSE "err"

\* Build, lines 93-101
FinalCleanup ==
    /\ pc = "teardown"
    /\ hostFiles' = ImageCleanup(hostFiles)
    /\ \E ok \in BOOLEAN :
         /\ log' = log \o <<Ev("Image.Cleanup", "", TRUE), Ev("pm.Cleanup", mountPoint, ok)>>
         /\ Return(BuildResult(ok))
    /\ UNCHANGED <<callVars, inputVars, backendVars, buildLocals, img, tempDirs, parentArchive,
                   packageLocals, pushVars>>

\* a Cleanup that gives up when the container cannot be unmounted
CleanupStopAtUmount(container, umountOk, rmOk) ==
    IF umountOk
    THEN [events |-> <<Ev("umount", container, TRUE), Ev("rm", container, rmOk)>>,
          unmounted |-> TRUE, removed |-> rmOk, ok |-> rmOk]
    ELSE [events |-> <<Ev("umount", container, FALSE)>>,
          unmounted |-> FALSE, removed |-> FALSE, ok |-> FALSE]

\* OCI.Cleanup(containerName): the backend commands it issues, whether the
\* container is unmounted and removed afterwards (rm unmounts what it removes)
\* and whether Cleanup returns nil; umountOk and rmOk are the backend's answers
CleanupRun(container, umountOk, rmOk) ==
    [events |-> <<Ev("umount", container, umountOk), Ev("rm", container, rmOk)>>,
     unmounted |-> umountOk \/ rmOk, removed |-> rmOk, ok |-> rmOk]

\* OCI.Cleanup(containerName), deferred at line 69; what it returns is dropped
DeferredCleanup ==
    /\ pc = "deferred"
    /\ \E umountOk \in BOOLEAN, rmOk \in BOOLEAN :
         LET run == CleanupRun(containerName, umountOk, rmOk)
         IN  /\ log' = log \o run.events
             /\ mounted' = IF run.unmounted THEN mounted \ {containerName} ELSE mounted
             /\ storage' = IF run.removed THEN storage \ {containerName} ELSE storage
    /\ pc' = "done"
    /\ UNCHANGED <<callVars, inputVars, result, oci, buildLocals, composerVars, packageLocals,
                   pushVars>>

Next ==
    \/ NewBuilder
    \/ PullParentImage
    \/ MountParent
    \/ setupContainerParent
    \/ CreateContainer
    \/ MountContainer
    \/ customizeContainer
    \/ GetKernelVersion
    \/ LoadParentImage
    \/ AddBaseLayer
    \/ AddConfigLayer
    \/ PrepareInitrd
    \/ extractKernel
    \/ AddKernelLayer
    \/ AddInitrdLayer
    \/ createSquashfs
    \/ PushStart
    \/ PushLoop
    \/ PushAttempt
    \/ FinalCleanup
    \/ DeferredCleanup

Spec == Init /\ [][Next]_vars

(***************************************************************************)
(* Operations of pkg/image, pkg/oci and pkg/pkgmgr called on their own     *)
(***************************************************************************)
MaxLayers == 2
MaxEntries == 2
MaxRepos == 2
MaxSpecs == 2

SeqsUpTo(S, n) == UNION {[1..k -> S] : k \in 0..n}

\* a path is the sequence of its elements; a file on disk has data, a
\* directory has the data "dir"
File(path, data) == [path |-> path, data |-> data]

Dir(path) == File(path, "dir")

\* filepath.Dir of a path of at least one element
DirOf(path) == SubSeq(path, 1, Len(path) - 1)

\* filepath.Clean("/" + name): empty and "." elements go, ".." drops the
\* element before it and is dropped at the root
RECURSIVE CleanFrom(_, _)
CleanFrom(elems, acc) ==
    IF elems = <<>> THEN acc
    ELSE LET e == Head(elems)
         IN  IF e = "" \/ e = "." THEN CleanFrom(Tail(elems), acc)
             ELSE IF e = ".."
             THEN CleanFrom(Tail(elems),
                            IF acc = <<>> THEN <<>> ELSE SubSeq(acc, 1, Len(acc) - 1))
             ELSE CleanFrom(Tail(elems), Append(acc, e))

Clean(elems) == CleanFrom(elems, <<>>)

\* the paths ExtractKernel and ExtractInitrd ask for
KernelPathInImage == <<"boot", "vmlinuz">>
InitrdPathInImage == <<"boot", "initrd.img">>

\* entries of layer tars: the name as the tar header has it, and the bytes
TarEntries ==
    {[name |-> <<".", "boot", "vmlinuz">>, data |-> "kernel-1"],
     [name |-> <<"boot", "vmlinuz">>, data |-> "kernel-2"],
     [name |-> <<".", "boot", "initrd.img">>, data |-> "initrd-1"]}

\* images as extractFile reads them: layers, each the entries of its tar in order
TarImages == SeqsUpTo(SeqsUpTo(TarEntries, MaxEntries), MaxLayers)

DestPath == <<"out", "file">>

\* the inner loop of extractFile: the first entry of the layer whose cleaned
\* name is the path, 0 when the layer has none
FirstEntry(layer, pathInImage) ==
    IF \E k \in 1..Len(layer) : Clean(layer[k].name) = pathInImage
    THEN CHOOSE k \in 1..Len(layer) :
            /\ Clean(layer[k].name) = pathInImage
            /\ \A j \in 1..(k - 1) : Clean(layer[j].name) # pathInImage
    ELSE 0

\* the outer loop of extractFile from layer j down to the first layer
RECURSIVE ExtractFrom(_, _, _)
ExtractFrom(layers, j, pathInImage) ==
    IF j = 0 THEN [found |-> FALSE]
    ELSE LET k == FirstEntry(layers[j], pathInImage)
         IN  IF k # 0 THEN [found |-> TRUE, data |-> layers[j][k].data]
             ELSE ExtractFrom(layers, j - 1, pathInImage)

Reverse(seq) == [k \in 1..Len(seq) |-> seq[Len(seq) + 1 - k]]

\* an extractFile that looks through the layers from the first one up
extractFileFirstLayerWins(layers, pathInImage) ==
    ExtractFrom(Reverse(layers), Len(layers), pathInImage)

\* Image.extractFile: what it finds to write
extractFile(layers, pathInImage) == ExtractFrom(layers, Len(layers), pathInImage)

\* Image.extractFile(pathInImage, destPath) with the host's answers: io is "ok",
\* or the step that fails once the entry is found
ExtractFile ==
    /\ call.fn = "extractFile"
    /\ ret = "none"
    /\ LET hit == extractFile(call.layers, call.pathInImage)
       IN  IF ~hit.found
           THEN /\ ret' = "not found"
                /\ UNCHANGED disk
           ELSE \E io \in {"ok", "MkdirAll", "Copy"} :
                  /\ ret' = IF io = "ok" THEN "ok" ELSE "err"
                  /\ disk' = CASE io = "ok" -> disk \cup {File(call.destPath, hit.data)}
                               [] io = "Copy" -> disk \cup {File(call.destPath, "")}
                               [] io = "MkdirAll" -> disk
    /\ UNCHANGED <<call, proc, inputVars, pc, result, backendVars, buildLocals, composerVars,
                   packageLocals, pushVars, log>>

\* OCI.PullParentImage called with any parent reference
CallPullParentImage ==
    /\ call.fn = "PullParentImage"
    /\ ret = "none"
    /\ \E a \in PullAnswers(storage) :
         LET run == PullParentImageRun(call.parent, storage, a.found, a.removed,
                                       a.pulled, a.verified)
         IN  /\ log' = log \o run.events
             /\ storage' = storage \ run.removed
             /\ mounted' = mounted \ run.removed
             /\ ret' = IF run.ok THEN "ok" ELSE "err"
    /\ UNCHANGED <<call, proc, disk, inputVars, pc, result, oci, buildLocals, composerVars,
                   packageLocals, pushVars>>

\* <root>/etc/yum.repos.d and the file of a repository in it
RepoDir == <<"etc", "yum.repos.d">>

RepoFile(repo) == Append(RepoDir, repo.alias \o ".repo")

\* the content AddRepos writes: the priority line only for a priority above 0
RepoContent(repo) ==
    [section |-> repo.alias, name |-> repo.alias, baseurl |-> repo.url,
     enabled |-> 1, gpgcheck |-> 0,
     priority |-> IF repo.priority > 0 THEN <<repo.priority>> ELSE <<>>]

Repositories ==
    {[alias |-> "baseos", url |-> "http://repo/baseos", priority |-> 0],
     [alias |-> "extras", url |-> "http://repo/extras", priority |-> 5]}

\* an AddRepos that makes the repository directory before it looks at the list
AddReposMkdirFirst(root, repos, mkdirOk, written) ==
    IF ~mkdirOk THEN [ret |-> "err", disk |-> root]
    ELSE [ret |-> IF written = Len(repos) THEN "ok" ELSE "err",
          disk |-> root \cup {Dir(RepoDir)}
                        \cup {File(RepoFile(repos[k]), RepoContent(repos[k])) :
                                k \in 1..written}]

\* DNF.AddRepos(root, repos) on the files under root: mkdirOk is the answer of
\* MkdirAll, `written` the number of files written before a write fails
AddReposRun(root, repos, mkdirOk, written) ==
    IF Len(repos) = 0 THEN [ret |-> "ok", disk |-> root]
    ELSE IF ~mkdirOk THEN [ret |-> "err", disk |-> root]
    ELSE [ret |-> IF written = Len(repos) THEN "ok" ELSE "err",
          disk |-> root \cup {Dir(RepoDir)}
                        \cup {File(RepoFile(repos[k]), RepoContent(repos[k])) :
                                k \in 1..written}]

AddRepos ==
    /\ call.fn = "AddRepos"
    /\ ret = "none"
    /\ \E mkdirOk \in BOOLEAN, written \in 0..Len(call.repos) :
         LET run == AddReposRun(disk, call.repos, mkdirOk, written)
         IN  /\ ret' = run.ret
             /\ disk' = run.disk
    /\ UNCHANGED <<call, proc, inputVars, pc, result, backendVars, buildLocals, composerVars,
                   packageLocals, pushVars, log>>

\* copyfiles entries, and the sources that may exist on the host
CopySpecs ==
    {[src |-> "host/motd", dest |-> <<"etc", "motd">>],
     [src |-> "host/site.conf", dest |-> <<"opt", "site", "site.conf">>]}

HostSources == {"host/motd", "host/site.conf"}

\* what one round of the loop of CopyFiles leaves under root
Copied(root, file) ==
    root \cup {Dir(DirOf(file.dest)), File(file.dest, file.src)}

\* a CopyFiles that passes over a missing source and goes on with the next spec
RECURSIVE CopySkippingFrom(_, _, _, _, _, _, _)
CopySkippingFrom(files, k, present, failAt, failStep, root, events) ==
    IF k > Len(files) THEN [ret |-> "ok", disk |-> root, events |-> events]
    ELSE LET file == files[k]
         IN  IF file.src \notin present
             THEN CopySkippingFrom(files, k + 1, present, failAt, failStep, root,
                                   Append(events, Ev("stat", file.src, FALSE)))
             ELSE CopySkippingFrom(files, k + 1, present, failAt, failStep,
                                   Copied(root, file),
                                   events \o <<Ev("stat", file.src, TRUE),
                                               Ev("mkdir", DirOf(file.dest), TRUE),
                                               Ev("cp", file.dest, TRUE)>>)

CopyFilesSkipMissing(root, files, present, failAt, failStep) ==
    CopySkippingFrom(files, 1, present, failAt, failStep, root, <<>>)

\* the loop of DNF.CopyFiles from spec k on: stat the source, make the
\* destination directory, run cp; round failAt fails at failStep
RECURSIVE CopyFilesFrom(_, _, _, _, _, _, _)
CopyFilesFrom(files, k, present, failAt, failStep, root, events) ==
    IF k > Len(files) THEN [ret |-> "ok", disk |-> root, events |-> events]
    ELSE LET file == files[k]
             stat == Ev("stat", file.src, file.src \in present)
             mkdir == Ev("mkdir", DirOf(file.dest), ~(k = failAt /\ failStep = "mkdir"))
             cp == Ev("cp", file.dest, ~(k = failAt /\ failStep = "cp"))
         IN  IF ~stat.ok
             THEN [ret |-> "err", disk |-> root, events |-> Append(events, stat)]
             ELSE IF ~mkdir.ok
             THEN [ret |-> "err", disk |-> root, events |-> events \o <<stat, mkdir>>]
             ELSE IF ~cp.ok
             THEN [ret |-> "err", disk |-> root \cup {Dir(DirOf(file.dest))},
                   events |-> events \o <<stat, mkdir, cp>>]
             ELSE CopyFilesFrom(files, k + 1, present, failAt, failStep,
                                Copied(root, file), events \o <<stat, mkdir, cp>>)

\* DNF.CopyFiles(root, files) on a host where the sources `present` exist
CopyFilesRun(root, files, present, failAt, failStep) ==
    CopyFilesFrom(files, 1, present, failAt, failStep, root, <<>>)

CopyFiles ==
    /\ call.fn = "CopyFiles"
    /\ ret = "none"
    /\ \E failAt \in 0..Len(call.files), failStep \in {"mkdir", "cp"} :
         LET run == CopyFilesRun(disk, call.files, call.present, failAt, failStep)
         IN  /\ ret' = run.ret
             /\ disk' = run.disk
             /\ log' = log \o run.events
    /\ UNCHANGED <<call, proc, inputVars, pc, result, backendVars, buildLocals, composerVars,
                   packageLocals, pushVars>>

\* ValidationError.Error()
ValidationError(field, msg) == field \o ": " \o msg

\* fmt.Sprintf("<list>[%d].<key>", i) for the element at position k of a
\* sequence (Go counts from 0)
Indexed(list, k, key) == list \o "[" \o ToString(k - 1) \o "]." \o key

\* strings.ToUpper on the log level names a recipe may carry
ToUpper(s) ==
    CASE s = "info" -> "INFO"
      [] s = "debug" -> "DEBUG"
      [] s = "Warning" -> "WARNING"
      [] s = "error" -> "ERROR"
      [] OTHER -> s

LogLevels == {"INFO", "DEBUG", "WARNING", "ERROR"}

\* the three loops of Validate from element k on: the first error, "ok" if none
RECURSIVE ValidateRepositories(_, _)
ValidateRepositories(repos, k) ==
    IF k > Len(repos) THEN "ok"
    ELSE IF repos[k].alias = ""
    THEN ValidationError(Indexed("repositories", k, "alias"), "is required")
    ELSE IF repos[k].url = ""
    THEN ValidationError(Indexed("repositories", k, "url"), "is required")
    ELSE ValidateRepositories(repos, k + 1)

RECURSIVE ValidateCmds(_, _)
ValidateCmds(cmds, k) ==
    IF k > Len(cmds) THEN "ok"
    ELSE IF cmds[k].cmd = ""
    THEN ValidationError(Indexed("cmds", k, "cmd"), "is required")
    ELSE IF cmds[k].loglevel # "" /\ ToUpper(cmds[k].loglevel) \notin LogLevels
    THEN ValidationError(Indexed("cmds", k, "loglevel"),
                         "must be one of: INFO, DEBUG, WARNING, ERROR")
    ELSE ValidateCmds(cmds, k + 1)

RECURSIVE ValidateCopyFiles(_, _)
ValidateCopyFiles(files, k) ==
    IF k > Len(files) THEN "ok"
    ELSE IF files[k].src = ""
    THEN ValidationError(Indexed("copyfiles", k, "src"), "is required")
    ELSE IF files[k].dest = ""
    THEN ValidationError(Indexed("copyfiles", k, "dest"), "is required")
    ELSE ValidateCopyFiles(files, k + 1)

\* Validate's tests of Options
ValidateOptions(c) ==
    IF c.layerType = "" THEN ValidationError("options.layer_type", "is required")
    ELSE IF c.layerType # "base" /\ c.layerType # "ansible"
    THEN ValidationError("options.layer_type", "must be 'base' or 'ansible'")
    ELSE IF c.name = "" THEN ValidationError("options.name", "is required")
    ELSE IF c.layerType = "base" /\ c.pkgManager = ""
    THEN ValidationError("options.pkg_manager", "is required for base layer")
    ELSE "ok"

\* the first of the results that is an error, "ok" if none is
FirstError(results) ==
    IF \E k \in 1..Len(results) : results[k] # "ok"
    THEN results[CHOOSE k \in 1..Len(results) :
                    /\ results[k] # "ok"
                    /\ \A j \in 1..(k - 1) : results[j] = "ok"]
    ELSE "ok"

\* a Validate that looks at the copyfiles before the commands
ValidateCopyFilesFirst(c) ==
    FirstError(<<ValidateOptions(c), ValidateRepositories(c.repos, 1),
                 ValidateCopyFiles(c.copyFiles, 1), ValidateCmds(c.cmds, 1)>>)

\* Config.Validate: the error text, "ok" for nil
Validate(c) ==
    FirstError(<<ValidateOptions(c), ValidateRepositories(c.repos, 1),
                 ValidateCmds(c.cmds, 1), ValidateCopyFiles(c.copyFiles, 1)>>)

\* the configurations validated: every combination of present and missing
\* fields with at most MaxItems list elements in all
MaxItems == 2

ConfigRepos == [alias : {"", "baseos"}, url : {"", "http://repo/baseos"}]

ConfigCmds == [cmd : {"", "echo test"}, loglevel : {"", "info", "INVALID"}]

ConfigCopyFiles ==
    [src : {"", "source.txt"}, dest : {"", "dest.txt"}, opts : {<<"--recursive">>},
     mode : {420}]

Configs ==
    UNION {[layerType : {"", "base", "ansible", "iso"},
            name : {"", "test-image"},
            pkgManager : {"", "dnf"},
            repos : [1..n[1] -> ConfigRepos],
            cmds : [1..n[2] -> ConfigCmds],
            copyFiles : [1..n[3] -> ConfigCopyFiles]] :
           n \in {m \in (0..MaxItems) \X (0..MaxItems) \X (0..MaxItems) :
                      m[1] + m[2] + m[3] <= MaxItems}}

\* c.Cmds after the loop of Validate over it: the loop variable cmd is a copy
\* of the element, so the upper-cased LogLevel is assigned to the copy and the
\* element of the slice stays as it was
CmdsAfterValidate(cmds) ==
    [k \in 1..Len(cmds) |->
        LET cmd == [cmds[k] EXCEPT !.loglevel = IF @ # "" THEN ToUpper(@) ELSE @]
        IN  cmds[k]]

\* Config.Validate() on a parsed configuration, as LoadConfig calls it
CallValidate ==
    /\ call.fn = "Validate"
    /\ ret = "none"
    /\ ret' = Validate(recipe)
    /\ recipe' = [recipe EXCEPT !.cmds = CmdsAfterValidate(recipe.cmds)]
    /\ UNCHANGED <<call, proc, disk, parentStored, builds, pc, result, backendVars, buildLocals,
                   composerVars, packageLocals, pushVars, log>>

\* pipes hold up to PipeCapacity chunks, a child writes up to MaxWrites chunks,
\* and the scanner gives up on a line of more than MaxTokenSize chunks
\* (bufio.MaxScanTokenSize)
PipeCapacity == 1
MaxWrites == 3
MaxTokenSize == 2

\* the operations that start a child and follow its output
StreamingCalls == {"InstallPackages", "RunCommand"}

\* what a child does: chunks written to stdout ("out") or stderr ("err"), each
\* a piece of a line or the newline that ends one; then it exits
Programs == SeqsUpTo([fd : {"out", "err"}, newline : BOOLEAN], MaxWrites)

\* after cmd.Start(): both pipes empty, the child at its first write, the
\* scanner on the first reader of io.MultiReader(stdout, stderr)
Started ==
    [started |-> TRUE, out |-> <<>>, err |-> <<>>, next |-> 1, exited |-> FALSE,
     reader |-> "out", token |-> 0]

\* the child writes its next chunk; write(2) blocks while the pipe is full
ChildWrite ==
    /\ call.fn \in StreamingCalls
    /\ ~proc.exited
    /\ proc.next <= Len(call.program)
    /\ LET chunk == call.program[proc.next]
       IN  /\ Len(proc[chunk.fd]) < PipeCapacity
           /\ proc' = [proc EXCEPT ![chunk.fd] = Append(@, chunk.newline),
                                   !.next = @ + 1]
    /\ UNCHANGED <<call, disk, ret, inputVars, pc, result, backendVars, buildLocals,
                   composerVars, packageLocals, pushVars, log>>

\* the child has written everything and exits: the write ends are closed
ChildExit ==
    /\ call.fn \in StreamingCalls
    /\ ~proc.exited
    /\ proc.next > Len(call.program)
    /\ proc' = [proc EXCEPT !.exited = TRUE]
    /\ UNCHANGED <<call, disk, ret, inputVars, pc, result, backendVars, buildLocals,
                   composerVars, packageLocals, pushVars, log>>

\* scanner.Scan() on io.MultiReader(stdout, stderr): a read of the current
\* pipe takes a chunk, blocks while the pipe is empty and open, and at end of
\* file goes on to the next reader; after the last reader, or on a line that
\* is too long, the loop ends and cmd.Wait() is next
ScanOutput ==
    /\ call.fn \in StreamingCalls
    /\ proc.reader \in {"out", "err"}
    /\ LET pipe == proc[proc.reader]
       IN  IF pipe # <<>>
           THEN LET token == IF Head(pipe) THEN 0 ELSE proc.token + 1
                IN  proc' = [proc EXCEPT ![proc.reader] = Tail(pipe),
                                         !.token = token,
                                         !.reader = IF token > MaxTokenSize THEN "wait"
                                                    ELSE @]
           ELSE /\ proc.exited
                /\ proc' = [proc EXCEPT !.reader = IF @ = "out" THEN "err" ELSE "wait"]
    /\ UNCHANGED <<call, disk, ret, inputVars, pc, result, backendVars, buildLocals,
                   composerVars, packageLocals, pushVars, log>>

\* cmd.Wait(): returns once the child has exited
WaitForExit ==
    /\ call.fn \in StreamingCalls
    /\ proc.reader = "wait"
    /\ proc.exited
    /\ proc' = [proc EXCEPT !.reader = "done"]
    /\ ret' = "ok"
    /\ UNCHANGED <<call, disk, inputVars, pc, result, backendVars, buildLocals,
                   composerVars, packageLocals, pushVars, log>>

\* the calls made on a seeded Image
ImageCalls == {"AddBaseLayer", "HasLayerWithComment", "findAndCopyLayerFromParent"}

\* the images a Composer is seeded with, each with the parent reference of its
\* recipe: empty.Image for a scratch build, else the parent from local storage
SeededComposers ==
    {[seed |-> EmptyImage, parent |-> p] : p \in {"", "scratch"}}
    \cup {[seed |-> i, parent |-> ParentRef] :
            i \in ParentImages \cup {[ExternalImage EXCEPT !.labels.os = <<"sles">>]}}

\* Image.AddBaseLayer(path) on a seeded Composer, with the host's answers
CallAddBaseLayer ==
    /\ call.fn = "AddBaseLayer"
    /\ ret = "none"
    /\ LET run == AddBaseLayerRun(img, call.parent, call.archived, call.osRelease,
                                  call.rest, 0)
       IN  /\ ret' = IF run.ok THEN "ok" ELSE "err"
           /\ img' = run.img
           /\ hostFiles' = Staged(hostFiles, "base-layer", run.ok)
           /\ tempDirs' = IF run.ok THEN Append(tempDirs, "base-layer") ELSE tempDirs
    /\ UNCHANGED <<call, proc, disk, inputVars, pc, result, backendVars, buildLocals,
                   parentArchive, packageLocals, pushVars, log>>

\* the comments asked for
Comments == {BaseComment, ConfigComment, KernelComment, InitrdComment}

\* packageImage, lines 236-242: the layers it appends before it asks
\* HasLayerWithComment
AppendBeforeAsking ==
    /\ call.fn = "HasLayerWithComment"
    /\ ret = "none"
    /\ img = call.seed
    /\ img' = AddConfigLayerImg(AddBaseLayerImg(img, call.parent, "present", 0), 0)
    /\ UNCHANGED <<call, proc, disk, ret, inputVars, pc, result, backendVars, buildLocals,
                   tempDirs, parentArchive, hostFiles, packageLocals, pushVars, log>>

\* Image.HasLayerWithComment(comment) on the Composer as it is
CallHasLayerWithComment ==
    /\ call.fn = "HasLayerWithComment"
    /\ ret = "none"
    /\ ret' = IF HasLayerWithComment(img, call.parent, call.comment) THEN "true"
              ELSE "false"
    /\ UNCHANGED <<call, proc, disk, inputVars, pc, result, backendVars, buildLocals,
                   composerVars, packageLocals, pushVars, log>>

\* Image.findAndCopyLayerFromParent(layerComment) on a seeded Composer
CallFindAndCopyLayerFromParent ==
    /\ call.fn = "findAndCopyLayerFromParent"
    /\ ret = "none"
    /\ LET found == findAndCopyLayerFromParent(img, call.parent, call.comment)
       IN  /\ ret' = IF found.status = "none" THEN "false" ELSE found.status
           /\ img' = found.img
    /\ UNCHANGED <<call, proc, disk, inputVars, pc, result, backendVars, buildLocals,
                   tempDirs, parentArchive, hostFiles, packageLocals, pushVars, log>>

\* OCI.Cleanup(containerName) on a backend that holds the containers
\* call.storage, of which call.mounted are mounted
CallCleanup ==
    /\ call.fn = "Cleanup"
    /\ ret = "none"
    /\ \E umountOk \in BOOLEAN, rmOk \in BOOLEAN :
         LET run == CleanupRun(call.container, umountOk, rmOk)
         IN  /\ log' = log \o run.events
             /\ mounted' = IF run.unmounted THEN mounted \ {call.container} ELSE mounted
             /\ storage' = IF run.removed THEN storage \ {call.container} ELSE storage
             /\ ret' = IF run.ok THEN "ok" ELSE "err"
    /\ UNCHANGED <<call, proc, disk, inputVars, pc, result, oci, buildLocals, composerVars,
                   packageLocals, pushVars>>

\* the calls of one operation, over its inputs
OwnCalls(fn) ==
    CASE fn = "extractFile" ->
            {[fn |-> fn, layers |-> ls, pathInImage |-> path, destPath |-> DestPath,
              disk |-> {}] :
                ls \in TarImages, path \in {KernelPathInImage, InitrdPathInImage}}
      [] fn = "PullParentImage" ->
            {[fn |-> fn, parent |-> parent, disk |-> {}] :
                parent \in {"", "scratch", ParentRef}}
      [] fn = "AddRepos" ->
            {[fn |-> fn, repos |-> repos, disk |-> root] :
                repos \in SeqsUpTo(Repositories, MaxRepos),
                root \in {{}, {File(<<"etc", "os-release">>, "ID=rocky")}}}
      [] fn = "CopyFiles" ->
            {[fn |-> fn, files |-> files, present |-> present, disk |-> {}] :
                files \in SeqsUpTo(CopySpecs, MaxSpecs), present \in SUBSET HostSources}
      [] fn = "AddBaseLayer" ->
            {[fn |-> fn, seed |-> c.seed, parent |-> c.parent, archived |-> archived,
              osRelease |-> osRelease, rest |-> rest, disk |-> {}] :
                c \in SeededComposers, archived \in BOOLEAN,
                osRelease \in {"present", "absent", "error"}, rest \in LayerOutcomes}
      [] fn = "Validate" ->
            {[fn |-> fn, config |-> c, disk |-> {}] : c \in Configs}
      [] fn \in {"HasLayerWithComment", "findAndCopyLayerFromParent"} ->
            {[fn |-> fn, seed |-> c.seed, parent |-> c.parent, comment |-> comment,
              disk |-> {}] :
                c \in SeededComposers, comment \in Comments}
      [] fn \in StreamingCalls ->
            {[fn |-> fn, program |-> program, disk |-> {}] : program \in Programs}
      [] fn = "Cleanup" ->
            {[fn |-> fn, container |-> Work, storage |-> held, mounted |-> m,
              disk |-> {}] :
                held \in {{Work}, {Work, Stale}}, m \in SUBSET {Work}}

InitCalls ==
    /\ \E fn \in {"extractFile", "PullParentImage", "AddRepos", "CopyFiles", "Validate",
                  "Cleanup"}
                  \cup ImageCalls \cup StreamingCalls :
            call \in OwnCalls(fn)
    /\ disk = call.disk
    /\ ret = "none"
    /\ proc = IF call.fn \in StreamingCalls THEN Started ELSE NoProcess
    /\ recipe = IF call.fn = "Validate" THEN call.config
                ELSE [parent |-> "", initrd |-> FALSE, squashfs |-> FALSE,
                      publishRegistry |-> "", publishTags |-> <<>>, packages |-> FALSE,
                      copyFiles |-> FALSE, cmds |-> 0, pkgManager |-> "dnf"]
    /\ parentStored = NoImage
    /\ builds = <<>>
    /\ pc = "call"
    /\ result = "none"
    /\ storage = IF call.fn = "Cleanup" THEN call.storage ELSE {Stale}
    /\ mounted = IF call.fn = "Cleanup" THEN call.mounted ELSE {}
    /\ containerName = ""
    /\ mountPoint = ""
    /\ oci = [parentContainer |-> "", parentMountPoint |-> ""]
    /\ kernelVersion = <<>>
    /\ initrdPath = ""
    /\ img = IF call.fn \in ImageCalls THEN call.seed ELSE NoImage
    /\ tempDirs = <<>>
    /\ parentArchive = ""
    /\ hostFiles = {}
    /\ log = <<>>
    /\ tags = <<>>
    /\ tagIdx = 0
    /\ attempt = 0
    /\ lastErr = <<>>
    /\ pushLog = <<>>

NextCalls ==
    \/ ExtractFile
    \/ CallPullParentImage
    \/ AddRepos
    \/ CopyFiles
    \/ CallAddBaseLayer
    \/ CallValidate
    \/ ChildWrite
    \/ ChildExit
    \/ ScanOutput
    \/ WaitForExit
    \/ AppendBeforeAsking
    \/ CallHasLayerWithComment
    \/ CallFindAndCopyLayerFromParent
    \/ CallCleanup

SpecCalls == InitCalls /\ [][NextCalls]_vars

(***************************************************************************)
(* Properties                                                              *)
(***************************************************************************)
Happened(verb, arg, ok) == \E k \in 1..Len(log) : log[k] = Ev(verb, arg, ok)

Last(seq) == seq[Len(seq)]

\* the backend created the working container
WorkCreated == Happened("from", "scratch", TRUE) \/ Happened("from", ParentRef, TRUE)

\* Build has returned
Returned == pc = "done"

\* C1: when Build returns an error after the backend created the working
\* container, the container is no longer in backend storage (granted that no
\* `rm` of it failed)
C1_NoContainerOutlivesFailedBuild ==
    (Returned /\ result = "err" /\ WorkCreated /\ ~Happened("rm", Work, FALSE))
        => Work \notin storage

\* C2: when Build returns, on any path, no recorded layer temp directory and no
\* parent archive is left on the host
C2_NoStagedArtifactLeft ==
    Returned => (Range(tempDirs) \cup {ParentArchivePath}) \cap hostFiles = {}

\* between the return of setupContainer and the return of pkgMgr.cleanup
InsideBuildStages ==
    pc \in {"customize", "package", "loadParent", "addBase", "addConfig", "initrd",
            "extractKernel", "addKernel", "addInitrd", "squashfs", "push", "pushLoop",
            "pushAttempt", "teardown"}

UmountIssued == Happened("umount", Work, TRUE) \/ Happened("umount", Work, FALSE)

\* C3: no umount of the working container is issued between the return of
\* setupContainer and the return of pkgMgr.cleanup, and a Build that reached its
\* final cleanup ends with Composer.cleanup, pkgMgr.cleanup, umount, rm in that order
C3_MountedUntilTeardown ==
    /\ InsideBuildStages => ~UmountIssued
    /\ (Returned /\ Happened("Image.Cleanup", "", TRUE)) =>
          /\ Len(log) >= 4
          /\ [k \in 1..4 |-> log[Len(log) - 4 + k].verb]
                = <<"Image.Cleanup", "pm.Cleanup", "umount", "rm">>
          /\ \A k \in 1..(Len(log) - 2) : ~(log[k].verb = "umount" /\ log[k].arg = Work)

\* history and layers have the same length and history[k] names layers[k]
WellFormed(i) ==
    /\ Len(i.history) = Len(Layers(i))
    /\ \A k \in 1..Len(i.history) : k <= Len(Layers(i)) => i.history[k] = Layers(i)[k].name

SeedWellFormed == IsScratch(recipe.parent) \/ WellFormed(parentStored)

\* C4: on an empty seed, or a parent seed that satisfies it, the image of the
\* Composer has as many history entries as layers and history[k] names layers[k]
\* after every successful add*Layer call
C4_HistoryMatchesLayers ==
    (img # NoImage /\ SeedWellFormed) => WellFormed(img)

CanonicalComments == <<BaseComment, ConfigComment, KernelComment, InitrdComment>>

Rank(comment) == CHOOSE k \in 1..4 : CanonicalComments[k] = comment

IsCanonical(comment) == comment \in Range(CanonicalComments)

\* strictly ascending in the canonical order: in order and none twice
Ascending(comments) ==
    \A j, k \in 1..Len(comments) : j < k => Rank(comments[j]) < Rank(comments[k])

\* C5: after a successful Build the history comments that are layer names
\* appear in the canonical order, none twice (entries with other comments
\* are not held against the claim)
C5_CommentsCanonical ==
    (Returned /\ result = "ok") => Ascending(SelectSeq(img.history, IsCanonical))

\* C6: a successful scratch Build with initrd has exactly four layers, made by
\* this build under the names Base OS Layer, Configuration Layer, Kernel Layer,
\* Initrd Layer in that order, and these are the layer names its history lists
C6_ScratchInitrdFourLayers ==
    (Returned /\ result = "ok" /\ IsScratch(recipe.parent) /\ recipe.initrd) =>
        /\ Layers(img) = [k \in 1..4 |-> Layer(CanonicalComments[k], 0)]
        /\ img.manifest = Layers(img)
        /\ SelectSeq(img.history, IsCanonical) = CanonicalComments

C6_Witness ==
    /\ Returned /\ result = "ok" /\ recipe.parent = "scratch" /\ recipe.initrd
    /\ Len(img.manifest) = 4

ParentHasInitrd ==
    /\ ~IsScratch(recipe.parent)
    /\ HistoryIndex(parentStored.history, InitrdComment) # 0

\* C7: with a parent that carries an "Initrd Layer" comment and initrd
\* requested, dracut never runs, and an initrd layer taken from the parent is
\* the parent's layer at the index of that history entry
C7_InitrdReusedFromParent ==
    (ParentHasInitrd /\ recipe.initrd) =>
        /\ ~Happened("run", "dracut", TRUE) /\ ~Happened("run", "dracut", FALSE)
        /\ Happened("AddInitrdLayer", "copy", TRUE) =>
              LET k == HistoryIndex(parentStored.history, InitrdComment)
              IN  /\ k <= Len(Layers(parentStored))
                  /\ Last(img.manifest) = Layers(parentStored)[k]

\* C8: on a parent this pipeline built from scratch with initrd, a Build with
\* initrd extracts no kernel, its reuse lookups do not fail, and the kernel and
\* initrd layers it appends are the parent's
C8_KernelAndInitrdFromPipelineParent ==
    (~IsScratch(recipe.parent) /\ parentStored = ScratchInitrdImage /\ recipe.initrd) =>
        /\ ~Happened("run", "stat vmlinuz", TRUE) /\ ~Happened("run", "stat vmlinuz", FALSE)
        /\ ~Happened("AddKernelLayer", "copy", FALSE)
        /\ ~Happened("AddInitrdLayer", "copy", FALSE)
        /\ (pc = "addInitrd") => Last(img.manifest) = Layer(KernelComment, 1)
        /\ Happened("AddInitrdLayer", "copy", TRUE) =>
              Last(img.manifest) = Layer(InitrdComment, 1)

\* the attempts Push made at the registry for tags, in the order made
IsPush(e) == e.op = "push"

Pushes == SelectSeq(pushLog, IsPush)

NonEmpty(tag) == tag # <<>>

\* the tags of the recipe that Push is to publish, in the order listed
EffectiveTags ==
    LET listed == publishTagList(recipe.publishTags)
    IN  SelectSeq([k \in 1..Len(listed) |-> TrimSpace(listed[k])], NonEmpty)

BlobFailure(e) == e.res # PushOk /\ BlobUploadUnknown \in Range(e.res)

OtherFailure(e) == e.res # PushOk /\ BlobUploadUnknown \notin Range(e.res)

PushReturnedError == pc \in {"deferred", "done"} /\ result = "err"

\* C9: every attempt is made for the first listed tag that has not yet been
\* pushed successfully (so tags go in listed order, one after the success of the
\* one before), and an attempt that fails with an error other than
\* BLOB_UPLOAD_UNKNOWN is the last attempt Push makes, and Push returns an error
C9_TagsSequentialStopAtFailure ==
    LET made == Pushes
        listed == EffectiveTags
    IN  \A k \in 1..Len(made) :
            LET okBefore == Cardinality({j \in 1..(k - 1) : made[j].res = PushOk})
            IN  /\ okBefore < Len(listed)
                /\ made[k].tag = listed[okBefore + 1]
                /\ OtherFailure(made[k]) => (k = Len(made) /\ PushReturnedError)

C9_Witness ==
    /\ Returned
    /\ Len(EffectiveTags) = 3
    /\ Len(Pushes) = 2
    /\ Pushes[1].res = PushOk
    /\ OtherFailure(Pushes[2])
    /\ Pushes[2].tag = EffectiveTags[2]

\* C10: attempts at a tag are numbered 0, 1, 2 and never beyond, attempt n is
\* preceded by a sleep of 2n seconds (0, 2, 4), an attempt after the first
\* follows a BLOB_UPLOAD_UNKNOWN failure of the attempt before at the same tag,
\* a BLOB_UPLOAD_UNKNOWN failure of attempt 0 or 1 is followed by the next
\* attempt, and one of attempt 2 ends Push with an error
C10_ThreeAttemptsWithBackoff ==
    LET made == Pushes
    IN  \A k \in 1..Len(made) :
            /\ made[k].attempt \in 0..2
            /\ made[k].slept = 2 * made[k].attempt
            /\ made[k].attempt > 0 =>
                  /\ k > 1
                  /\ BlobFailure(made[k - 1])
                  /\ made[k - 1].tag = made[k].tag
                  /\ made[k - 1].attempt = made[k].attempt - 1
            /\ (BlobFailure(made[k]) /\ made[k].attempt < 2) =>
                  IF k = Len(made) THEN pc = "pushAttempt"
                  ELSE made[k + 1].attempt = made[k].attempt + 1
            /\ (BlobFailure(made[k]) /\ made[k].attempt = 2) =>
                  (k = Len(made) /\ PushReturnedError)

C10_Witness ==
    /\ Returned /\ result = "err"
    /\ Len(Pushes) >= 3
    /\ LET n == Len(Pushes)
       IN  /\ \A k \in (n - 2)..n : BlobFailure(Pushes[k])
           /\ [k \in 1..3 |-> Pushes[n - 3 + k].slept] = <<0, 2, 4>>
           /\ [k \in 1..3 |-> Pushes[n - 3 + k].attempt] = <<0, 1, 2>>

\* Push returned an error that no registry push of a listed tag produced: a
\* listed tag that is no valid tag, or the package manager's cleanup
ErrorFromElsewhere ==
    \/ Happened("pm.Cleanup", mountPoint, FALSE)
    \/ /\ tagIdx \in 1..Len(tags)
       /\ ~ValidTag(CurrentTag)

\* attempts k-2, k-1, k are the first three at one tag: BLOB_UPLOAD_UNKNOWN
\* twice, then success
TwiceThenSuccess(k) ==
    /\ k >= 3
    /\ Pushes[k - 2].attempt = 0
    /\ BlobFailure(Pushes[k - 2])
    /\ BlobFailure(Pushes[k - 1])
    /\ Pushes[k].res = PushOk

\* C11: when the pushes of a tag return BLOB_UPLOAD_UNKNOWN twice and then
\* succeed, these are attempts 0, 1, 2 of the one tag, the sleeps before them
\* sum to 6 seconds, the next attempt (if any) is the first one of another tag,
\* and Push does not fail because of this tag
C11_TwoRetriesThenSuccess ==
    \A k \in 1..Len(Pushes) :
        TwiceThenSuccess(k) =>
            /\ [j \in 1..3 |-> Pushes[k - 3 + j].attempt] = <<0, 1, 2>>
            /\ Pushes[k - 2].tag = Pushes[k].tag /\ Pushes[k - 1].tag = Pushes[k].tag
            /\ Pushes[k - 2].slept + Pushes[k - 1].slept + Pushes[k].slept = 6
            /\ k < Len(Pushes) =>
                  (Pushes[k + 1].attempt = 0 /\ Pushes[k + 1].tag # Pushes[k].tag)
            /\ k = Len(Pushes) =>
                  /\ pc = "pushAttempt" => CurrentTag # Pushes[k].tag
                  /\ PushReturnedError => ErrorFromElsewhere

C11_Witness ==
    /\ Returned /\ result = "ok"
    /\ Len(Pushes) = 3
    /\ TwiceThenSuccess(3)

\* the attempts made at the tag of attempt k
AttemptsAtTagOf(k) == {j \in 1..Len(Pushes) : Pushes[j].tag = Pushes[k].tag}

\* C12: an attempt other than the first of a tag follows a BLOB_UPLOAD_UNKNOWN
\* failure at that tag; a failure without BLOB_UPLOAD_UNKNOWN is the last
\* attempt made (nothing is slept or tried after it) and Push returns an error;
\* when it is the first attempt of its tag it is the only one
C12_OnlyBlobUploadUnknownRetried ==
    \A k \in 1..Len(Pushes) :
        /\ Pushes[k].attempt > 0 =>
              (k > 1 /\ BlobFailure(Pushes[k - 1]) /\ Pushes[k - 1].tag = Pushes[k].tag)
        /\ OtherFailure(Pushes[k]) =>
              /\ k = Len(Pushes)
              /\ pc # "pushAttempt"
              /\ PushReturnedError
              /\ Pushes[k].attempt = 0 => AttemptsAtTagOf(k) = {k}

C12_Witness ==
    /\ Returned /\ result = "err"
    /\ Len(Pushes) = 1
    /\ OtherFailure(Pushes[1])
    /\ Pushes[1].slept = 0

\* the tag list as the specification words it: split on ",", trim, drop the
\* empty ones, and the identifier of the base reference when nothing is left
TagsToPublish ==
    LET split == Split(recipe.publishTags, ",")
        kept == SelectSeq([k \in 1..Len(split) |-> TrimSpace(split[k])], NonEmpty)
    IN  IF kept = <<>> THEN <<DefaultTag>> ELSE kept

PushedOk(e) == e.op = "push" /\ e.res = PushOk

\* the tags pushed successfully, in the order pushed
TagsPushed ==
    LET done == SelectSeq(pushLog, PushedOk)
    IN  [k \in 1..Len(done) |-> done[k].tag]

\* Push has returned nil: Build is at or past its final cleanup
PushSucceeded ==
    /\ recipe.publishRegistry # ""
    /\ pc = "teardown" \/ Happened("Image.Cleanup", "", TRUE)

\* C13: a Push that succeeded has pushed exactly the trimmed non-empty elements
\* of publishTags, and the identifier of the base reference (one tag) when
\* there is no such element; so it has pushed at least one tag
C13_PushesListedTagsOrDefault ==
    PushSucceeded => (TagsPushed = TagsToPublish /\ Len(TagsPushed) >= 1)

EnsureFailure(e) ==
    \/ e.op = "parseParent"
    \/ e.op = "pushParent" /\ e.res # PushOk

\* ensureParentImage has returned an error
EnsureParentFailed == \E k \in 1..Len(pushLog) : EnsureFailure(pushLog[k])

\* the last registry push of a listed tag failed
TagPushFailed == Pushes # <<>> /\ Last(Pushes).res # PushOk

\* C14: after a failure of ensureParentImage the tag loop is set up and runs,
\* an error of Push comes from a tag (a failed push or an invalid tag), and
\* when every listed tag has been dealt with Push has succeeded
C14_ParentEnsureFailureNotFatal ==
    EnsureParentFailed =>
        /\ tags = publishTagList(recipe.publishTags)
        /\ tagIdx >= 1
        /\ PushReturnedError => (TagPushFailed \/ ErrorFromElsewhere)
        /\ (tagIdx > Len(tags) /\ pc # "pushLoop") => PushSucceeded

C14_Witness ==
    /\ Returned /\ result = "ok"
    /\ \E k \in 1..Len(pushLog) : pushLog[k].op = "pushParent" /\ pushLog[k].res # PushOk
    /\ Len(TagsPushed) >= 1

\* the add*Layer calls that make a temp directory, with the directory each makes
StagingCalls ==
    {<<"AddBaseLayer", mountPoint, "base-layer">>,
     <<"AddConfigLayer", "", "config-layer">>,
     <<"AddKernelLayer", "new", "kernel-layer">>,
     <<"AddInitrdLayer", "new", "initrd-layer">>}

CleanupCalled == Happened("Image.Cleanup", "", TRUE)

\* C19: the temp directory of a failed add*Layer is gone and not recorded; the
\* one of a successful add*Layer is recorded and exists as long as cleanup()
\* has not been called; after cleanup() no recorded directory exists
C19_StagingDirectories ==
    /\ \A c \in StagingCalls :
          /\ Happened(c[1], c[2], FALSE) =>
                (c[3] \notin hostFiles /\ c[3] \notin Range(tempDirs))
          /\ Happened(c[1], c[2], TRUE) =>
                /\ c[3] \in Range(tempDirs)
                /\ ~CleanupCalled => c[3] \in hostFiles
    /\ CleanupCalled => Range(tempDirs) \cap hostFiles = {}

C19_Witness ==
    /\ Returned
    /\ Happened("AddBaseLayer", mountPoint, TRUE)
    /\ Happened("AddConfigLayer", "", FALSE)
    /\ tempDirs = <<"base-layer">>
    /\ "base-layer" \in hostFiles

\* the calls of a package-manager operation Build has made
Calls(verb) == {k \in 1..Len(log) : log[k].verb = verb}

\* customizeContainer has been called and has returned
CustomizeReturned == mountPoint # "" /\ pc # "customize"

\* the layers of the image the Composer was seeded with
SeedLayers == IF IsScratch(recipe.parent) THEN <<>> ELSE parentStored.manifest

\* C20: for a recipe without packages and package groups Build never calls
\* InitRootfs, AddRepos or InstallPackages; it calls CopyFiles once when there
\* are files to copy and never otherwise; and without initrd a successful Build
\* has appended the Base OS layer and the Configuration layer and nothing else
C20_NoPackagesNoPackageManager ==
    ~recipe.packages =>
        /\ Calls("InitRootfs") = {} /\ Calls("AddRepos") = {}
        /\ Calls("InstallPackages") = {}
        /\ ~recipe.copyFiles => Calls("CopyFiles") = {}
        /\ (recipe.copyFiles /\ CustomizeReturned) => Cardinality(Calls("CopyFiles")) = 1
        /\ (~recipe.initrd /\ Returned /\ result = "ok") =>
              img.manifest = SeedLayers \o <<Layer(BaseComment, 0), Layer(ConfigComment, 0)>>

C20_Witness ==
    /\ ~recipe.packages /\ recipe.copyFiles /\ ~recipe.initrd
    /\ Returned /\ result = "ok"
    /\ Cardinality(Calls("CopyFiles")) = 1
    /\ img.manifest = <<Layer(BaseComment, 0), Layer(ConfigComment, 0)>>

\* a standalone call has returned
CallReturned(fn) == call.fn = fn /\ ret # "none"

\* the layers of the image read by the call that hold an entry at the path
Holders(layers, pathInImage) ==
    {j \in 1..Len(layers) :
        \E k \in 1..Len(layers[j]) : Clean(layers[j][k].name) = pathInImage}

Highest(S) == CHOOSE j \in S : \A i \in S : i <= j

\* the bytes of the entries at the path in one layer
BytesAt(layer, pathInImage) ==
    {layer[k].data : k \in {i \in 1..Len(layer) : Clean(layer[i].name) = pathInImage}}

AtDest == {f \in disk : f.path = call.destPath}

\* C15: extractFile(pathInImage, dst) writes to dst the bytes of the entry of
\* the last (highest-index) layer that contains the path; when no layer
\* contains it, it returns the not-found error and dst is not created.
C15_ExtractsFromLastLayer ==
    CallReturned("extractFile") =>
        LET holders == Holders(call.layers, call.pathInImage)
        IN  IF holders = {}
            THEN ret = "not found" /\ AtDest = {} /\ disk = call.disk
            ELSE /\ ret # "not found"
                 /\ ret = "ok" =>
                      /\ Cardinality(AtDest) = 1
                      /\ \A f \in AtDest :
                           f.data \in BytesAt(call.layers[Highest(holders)],
                                              call.pathInImage)

\* two layers hold the path with different bytes, and the copy was written
C15_Witness ==
    /\ CallReturned("extractFile") /\ ret = "ok"
    /\ LET holders == Holders(call.layers, call.pathInImage)
       IN  /\ Cardinality(holders) = 2
           /\ \E i \in holders, j \in holders :
                BytesAt(call.layers[i], call.pathInImage)
                    \cap BytesAt(call.layers[j], call.pathInImage) = {}
    /\ AtDest # {}

Pulls == Calls("pull")

Inspects == Calls("inspect")

\* C16: PullParentImage runs `pull` only after a local inspect failed; for an
\* empty or "scratch" parent it runs no backend command and succeeds; when the
\* inspect succeeds it succeeds with no pull; after a pull it succeeds only if
\* the second inspect succeeds.
C16_PullOnlyWhenMissing ==
    CallReturned("PullParentImage") =>
        /\ IsScratch(call.parent) => (log = <<>> /\ ret = "ok")
        /\ \A k \in Pulls :
             /\ \E j \in Inspects : j < k /\ ~log[j].ok
             /\ \A j \in Inspects : j < k => ~log[j].ok
        /\ (log # <<>> /\ log[1] = Ev("inspect", call.parent, TRUE)) =>
              (ret = "ok" /\ Pulls = {})
        /\ Pulls # {} =>
              (ret = "ok" => \E k \in Pulls, j \in Inspects : j > k /\ log[j].ok)

\* the image was missing, the pull went through but the second inspect failed
C16_Witness ==
    /\ CallReturned("PullParentImage") /\ ret = "err"
    /\ \E k \in Pulls : log[k].ok /\ Last(log) = Ev("inspect", call.parent, FALSE)

\* C17: addRepos with an empty repository list returns ok and changes nothing
\* under the root: no directory (not even etc/yum.repos.d) and no file.
C17_NoReposNothingWritten ==
    (CallReturned("AddRepos") /\ call.repos = <<>>) =>
        /\ ret = "ok"
        /\ disk = call.disk
        /\ Dir(RepoDir) \notin disk

\* an empty list on a root that holds files already
C17_Witness ==
    /\ CallReturned("AddRepos") /\ call.repos = <<>>
    /\ ret = "ok" /\ disk # {}

\* the copyfiles specs of the call whose source is missing on the host
MissingSpecs == {k \in 1..Len(call.files) : call.files[k].src \notin call.present}

FirstMissing == CHOOSE m \in MissingSpecs : \A k \in MissingSpecs : m <= k

\* no MkdirAll and no cp of the call failed
CopyStepsWentWell == \A k \in Calls("mkdir") \cup Calls("cp") : log[k].ok

RECURSIVE CopiedBefore(_, _)
CopiedBefore(files, m) ==
    IF m <= 1 THEN {} ELSE Copied(CopiedBefore(files, m - 1), files[m - 1])

\* C18: copyFiles takes the specs in order and returns an error at the first
\* spec whose source does not exist on the host, without creating a
\* destination directory or running the copy for that spec or a later one;
\* what the earlier specs copied stays in place.
C18_CopyStopsAtFirstMissingSource ==
    (CallReturned("CopyFiles") /\ MissingSpecs # {}) =>
        /\ ret = "err"
        /\ Cardinality(Calls("mkdir")) <= FirstMissing - 1
        /\ Cardinality(Calls("cp")) <= FirstMissing - 1
        /\ CopyStepsWentWell =>
             /\ Last(log) = Ev("stat", call.files[FirstMissing].src, FALSE)
             /\ Cardinality(Calls("stat")) = FirstMissing
             /\ Cardinality(Calls("mkdir")) = FirstMissing - 1
             /\ Cardinality(Calls("cp")) = FirstMissing - 1
             /\ disk = call.disk \cup CopiedBefore(call.files, FirstMissing)

\* the second spec has no source; the first one was copied and is still there
C18_Witness ==
    /\ CallReturned("CopyFiles") /\ MissingSpecs # {} /\ FirstMissing = 2
    /\ ret = "err"
    /\ File(call.files[1].dest, call.files[1].src) \in disk
    /\ Last(log) = Ev("stat", call.files[2].src, FALSE)

\* the com.openchami.image.os.* labels of an image
OsLabels(i) == i.labels.os

\* C21: addBaseLayer on a rootfs without /etc/os-release succeeds (when its
\* other steps do) and the new image carries the os labels of the seeded image
\* unchanged; any other error reading os-release makes addBaseLayer fail.
C21_NoOsReleaseKeepsParentLabels ==
    CallReturned("AddBaseLayer") =>
        /\ (call.osRelease = "absent" /\ call.archived /\ call.rest = "ok") =>
              /\ ret = "ok"
              /\ OsLabels(img) = OsLabels(call.seed)
              /\ Last(img.manifest) = Layer(BaseComment, 0)
        /\ (call.osRelease = "error") => (ret = "err" /\ img = call.seed)

\* a parent with os labels, a rootfs without os-release, and the layer appended
C21_Witness ==
    /\ CallReturned("AddBaseLayer") /\ call.osRelease = "absent" /\ ret = "ok"
    /\ OsLabels(call.seed) = <<"sles">>
    /\ Len(img.manifest) = Len(call.seed.manifest) + 1

\* the rules of Validate in their fixed order, each with the error it gives
OptionRules(c) ==
    <<[broken |-> c.layerType = "", error |-> "options.layer_type: is required"],
      [broken |-> c.layerType \notin {"base", "ansible"},
       error |-> "options.layer_type: must be 'base' or 'ansible'"],
      [broken |-> c.name = "", error |-> "options.name: is required"],
      [broken |-> c.layerType = "base" /\ c.pkgManager = "",
       error |-> "options.pkg_manager: is required for base layer"]>>

\* the two rules of element k of a list: the error texts carry index k - 1
ElementRules(list, k, key1, broken1, key2, broken2, msg2) ==
    <<[broken |-> broken1,
       error |-> list \o "[" \o ToString(k - 1) \o "]." \o key1 \o ": is required"],
      [broken |-> broken2,
       error |-> list \o "[" \o ToString(k - 1) \o "]." \o key2 \o ": " \o msg2]>>

RECURSIVE Flatten(_)
Flatten(seqs) == IF seqs = <<>> THEN <<>> ELSE Head(seqs) \o Flatten(Tail(seqs))

Rules(c) ==
    OptionRules(c)
    \o Flatten([k \in 1..Len(c.repos) |->
                  ElementRules("repositories", k, "alias", c.repos[k].alias = "",
                               "url", c.repos[k].url = "", "is required")])
    \o Flatten([k \in 1..Len(c.cmds) |->
                  ElementRules("cmds", k, "cmd", c.cmds[k].cmd = "", "loglevel",
                               c.cmds[k].loglevel \notin
                                   {"", "info", "INFO", "debug", "DEBUG", "Warning",
                                    "WARNING", "error", "ERROR"},
                               "must be one of: INFO, DEBUG, WARNING, ERROR")])
    \o Flatten([k \in 1..Len(c.copyFiles) |->
                  ElementRules("copyfiles", k, "src", c.copyFiles[k].src = "",
                               "dest", c.copyFiles[k].dest = "", "is required")])

Broken(c) == {k \in 1..Len(Rules(c)) : Rules(c)[k].broken}

FirstBroken(c) == CHOOSE k \in Broken(c) : \A j \in Broken(c) : k <= j

InvalidCopyfilesConfig ==
    [layerType |-> "base", name |-> "test-image", pkgManager |-> "dnf",
     repos |-> <<>>, cmds |-> <<>>,
     copyFiles |-> <<[src |-> "source.txt", dest |-> "dest.txt",
                      opts |-> <<"--recursive">>, mode |-> 420]>>]

\* C23: Validate refuses the configuration with valid base options and the one
\* copyfiles entry source.txt -> dest.txt with `copyfiles[0].dest: is required`.
C23_TestCopyfilesConfigRejected ==
    (CallReturned("Validate") /\ call.config = InvalidCopyfilesConfig) =>
        ret = "copyfiles[0].dest: is required"

\* nothing has been done yet to the backend, the host or a registry
NothingDone ==
    /\ log = <<>> /\ pushLog = <<>>
    /\ storage = {Stale} /\ mounted = {}
    /\ hostFiles = {} /\ img = NoImage /\ tempDirs = <<>>
    /\ result = "none"

\* C24: for every packageManagerKind other than dnf NewBuilder returns an error
\* and no Builder, so no backend, package-manager or registry operation is ever
\* performed for such a recipe.
C24_UnsupportedKindFailsAtConstruction ==
    recipe.pkgManager # "dnf" =>
        /\ pc \in {"new", "noBuilder"}
        /\ pc = "noBuilder" => ret \notin {"none", "ok"}
        /\ NothingDone

\* NewBuilder has refused a zypper recipe that asks for a registry push
C24_Witness ==
    /\ recipe.pkgManager = "zypper" /\ recipe.publishRegistry # ""
    /\ pc = "noBuilder"
    /\ ret = "zypper support not implemented yet"

\* the calls of packageImage whose failure ends packageImage
PackagingVerbs ==
    {"AddBaseLayer", "AddConfigLayer", "AddKernelLayer", "AddInitrdLayer", "mksquashfs"}

\* the commands of the deferred OCI.Cleanup
IsRelease(e) == e.verb \in {"umount", "rm"} /\ e.arg = containerName

\* C25: when every stage up to and including Push went through and
\* pkgMgr.cleanup(mountPoint) fails, Build returns the failure; a failure of
\* the deferred unmount or remove is never what Build returns; and Build stops
\* at the first stage error: nothing but the deferred release follows it.
C25_CleanupErrorReturnedReleaseErrorsNot ==
    /\ result = "err" => pc \in {"deferred", "done"}
    /\ \A k \in 1..Len(log) :
          (log[k].verb \in PackagingVerbs /\ ~log[k].ok) =>
              /\ result = "err"
              /\ \A j \in (k + 1)..Len(log) : IsRelease(log[j])
    /\ TagPushFailed => Calls("pm.Cleanup") = {}
    /\ (TagPushFailed /\ Returned) => result = "err"
    /\ Returned =>
          /\ Happened("pm.Cleanup", mountPoint, FALSE) => result = "err"
          /\ Happened("pm.Cleanup", mountPoint, TRUE) => result = "ok"
          /\ result = "ok" => Happened("pm.Cleanup", mountPoint, TRUE)

\* a build with a push that went through although unmount and remove failed
C25_Witness ==
    /\ Returned /\ result = "ok" /\ recipe.publishRegistry # ""
    /\ Happened("umount", containerName, FALSE)
    /\ Happened("rm", containerName, FALSE)

\* the stage of Build a position belongs to: 1 setupContainer,
\* 2 customizeContainer, 3 packageImage, 4 push, 5 the final cleanup, 6 the
\* deferred release and the return; 0 before Build is called
StageOf(at) ==
    CASE at \in {"new", "noBuilder"} -> 0
      [] at \in {"start", "mountParent", "setupParentReturn", "createContainer",
                 "mountContainer"} -> 1
      [] at = "customize" -> 2
      [] at \in {"package", "loadParent", "addBase", "addConfig", "initrd",
                 "extractKernel", "addKernel", "addInitrd", "squashfs"} -> 3
      [] at \in {"push", "pushLoop", "pushAttempt"} -> 4
      [] at = "teardown" -> 5
      [] at \in {"deferred", "done"} -> 6

\* every layer the recipe asks for has been appended
AllLayersAppended ==
    /\ Happened("AddBaseLayer", mountPoint, TRUE)
    /\ Happened("AddConfigLayer", "", TRUE)
    /\ recipe.initrd =>
          /\ \E k \in Calls("AddKernelLayer") : log[k].ok
          /\ \E k \in Calls("AddInitrdLayer") : log[k].ok

\* one step of Build keeps to the order of the stages
StagesInOrder ==
    LET from == StageOf(pc)
        to == StageOf(pc')
    IN  /\ to >= from
        \* a further stage starts only when the one before returned no error
        /\ (to > from /\ to <= 5) =>
              /\ result' = "none"
              /\ to = from + 1 \/ (from = 3 /\ to = 5)
        \* after packageImage comes push exactly when a registry is configured
        /\ (from = 3 /\ to \in {4, 5}) => (to = 4 <=> recipe.publishRegistry # "")
        \* once the registry has been contacted the image is not changed
        /\ (from >= 4 \/ pushLog # <<>>) => img' = img

\* C26: Build runs setupContainer, customizeContainer, packageImage, push and
\* the final cleanup in this order, each only after the one before returned
\* success; no registry operation happens before every layer of the build has
\* been appended; and push runs if and only if publishRegistry is non-empty.
C26_StagesInOrderPushIffRegistry ==
    /\ [](/\ (StageOf(pc) = 4 \/ pushLog # <<>>) =>
                (recipe.publishRegistry # "" /\ AllLayersAppended)
          /\ StageOf(pc) = 5 => AllLayersAppended
          /\ recipe.publishRegistry = "" => pushLog = <<>>)
    /\ [][StagesInOrder]_vars

\* Build pushed a tag and went on to its final cleanup
C26_Witness ==
    /\ pc = "teardown" /\ recipe.publishRegistry # "" /\ recipe.initrd
    /\ Pushes # <<>> /\ Last(Pushes).res = PushOk

\* a package-manager or backend call that writes into the rootfs: the calls of
\* customizeContainer, dracut run in the container by generateInitrd (it writes
\* the initramfs under /boot and its log under /tmp), and pm.Cleanup
IsRootfsWrite(e) ==
    \/ e.verb \in {"InitRootfs", "AddRepos", "InstallPackages", "CopyFiles",
                   "RunCommand", "pm.Cleanup"}
    \/ e.verb = "run" /\ e.arg = "dracut"

\* the Composer archives the mount point: its first read of the rootfs
IsComposerRead(e) == e.verb = "AddBaseLayer"

\* the Composer had appended its last layer before event k
ComposerDoneBefore(k) ==
    \E j \in 1..(k - 1) :
        /\ log[j].ok
        /\ log[j].verb = (IF recipe.initrd THEN "AddInitrdLayer" ELSE "AddConfigLayer")

\* C27: once the Composer has read the rootfs for the first time, no PkgMgr or
\* Backend operation writes into the rootfs until the Composer has appended
\* its last layer.
C27_RootfsWritesPrecedeComposerReads ==
    \A j \in 1..Len(log), k \in 1..Len(log) :
        (j < k /\ IsComposerRead(log[j]) /\ IsRootfsWrite(log[k])) =>
            ComposerDoneBefore(k)

\* the child or the caller can take a step
CanGoOn == ENABLED (ChildWrite \/ ChildExit \/ ScanOutput \/ WaitForExit)

\* C28: InstallPackages and RunCommand never deadlock with the child: whatever
\* the child writes to stdout and stderr and in whatever order, as long as the
\* call has not returned either the child or the caller can go on (so both
\* streams get drained, the child exits and the wait on its exit is reached).
C28_NoPipeDeadlock ==
    (call.fn \in StreamingCalls /\ ret = "none") => CanGoOn

\* the history of the image the Composer was constructed with holds the comment
SeedHasComment ==
    \E k \in 1..Len(call.seed.history) : call.seed.history[k] = call.comment

\* C29: hasLayerWithComment(c) is true exactly when the history of the seeded
\* parent image, as it was when the Composer was constructed, holds a comment
\* equal to c; layers appended during the build do not change the answer, and
\* with an empty or scratch parent the answer is false.
C29_ConsultsSeededHistoryOnly ==
    CallReturned("HasLayerWithComment") =>
        (ret = "true" <=> (~IsScratch(call.parent) /\ SeedHasComment))

\* the first history entry of the seed with the comment lies beyond its layers
FirstMatchBeyondLayers ==
    \E k \in 1..Len(call.seed.history) :
        /\ call.seed.history[k] = call.comment
        /\ \A j \in 1..(k - 1) : call.seed.history[j] # call.comment
        /\ k > Len(call.seed.diffIDs)

\* C30: when the first history entry matching the comment has an index at or
\* beyond the number of layers, findAndCopyLayerFromParent returns an internal
\* error, appends no layer and changes no label (and picks no layer at all).
C30_OutOfRangeIndexRejected ==
    (CallReturned("findAndCopyLayerFromParent") /\ ~IsScratch(call.parent)
     /\ FirstMatchBeyondLayers) =>
        (ret = "err" /\ img = call.seed)

\* asked for the kernel layer of a parent whose history is longer than its layers
C30_Witness ==
    /\ CallReturned("findAndCopyLayerFromParent") /\ ~IsScratch(call.parent)
    /\ call.comment = KernelComment /\ FirstMatchBeyondLayers
    /\ Len(call.seed.diffIDs) >= 3
    /\ ret = "err"

\* the program of the Backend's run operation (OCI.RunCommand)
BackendProgram == "buildah"

\* C31: customizeContainer runs the recipe commands in recipe order inside the
\* working container through the Backend, not by chrooting the host; after the
\* first failing command no later command, no packaging step and no push is
\* executed.
C31_CommandsThroughBackendStopAtFailure ==
    LET cmds == Calls("RunCommand")
    IN  /\ \A k \in cmds : log[k].arg = BackendProgram
        /\ Cardinality(cmds) <= recipe.cmds
        /\ (\E k \in 1..Len(log) : log[k].verb \in PackagingVerbs) =>
              (Cardinality(cmds) = recipe.cmds /\ \A k \in cmds : log[k].ok)
        /\ \A k \in cmds :
              ~log[k].ok => /\ \A j \in (k + 1)..Len(log) : IsRelease(log[j])
                            /\ pushLog = <<>>

\* C32: Cleanup(container) issues umount and then rm; a failed umount is only
\* a warning and never prevents the rm; Cleanup returns an error exactly when
\* the rm failed.
C32_CleanupUmountThenRm ==
    CallReturned("Cleanup") =>
        /\ Len(log) = 2
        /\ log[1].verb = "umount" /\ log[1].arg = call.container
        /\ log[2].verb = "rm" /\ log[2].arg = call.container
        /\ ret = (IF log[2].ok THEN "ok" ELSE "err")
        /\ log[2].ok => call.container \notin storage

\* the umount failed, the rm was issued all the same and went through
C32_Witness ==
    /\ CallReturned("Cleanup")
    /\ log = <<Ev("umount", Work, FALSE), Ev("rm", Work, TRUE)>>
    /\ ret = "ok" /\ Work \notin storage /\ Work \notin mounted
    /\ Work \in call.mounted

\* the pushes under the parent's reference
ParentPushes == {k \in 1..Len(pushLog) : pushLog[k].op = "pushParent"}

\* C33: Push pushes under the parent's reference only for a non-scratch parent
\* whose manifest the registry probe did not find, right after that probe, at
\* most once and before any tag push; when the probe finds the manifest
\* nothing is pushed under the parent's reference.
C33_ParentPushedOnlyWhenProbeFails ==
    /\ Cardinality(ParentPushes) <= 1
    /\ \A k \in ParentPushes :
          /\ ~IsScratch(recipe.parent)
          /\ pushLog[k].tag = <<recipe.parent>>
          /\ k > 1 /\ pushLog[k - 1].op = "manifest" /\ pushLog[k - 1].res # PushOk
          /\ \A j \in 1..(k - 1) : pushLog[j].op # "push"
    /\ \A k \in 1..Len(pushLog) :
          pushLog[k].op = "manifest" =>
              IF pushLog[k].res = PushOk THEN ParentPushes = {}
              ELSE ParentPushes = {k + 1}

\* the probe failed, the parent was pushed once, and a tag was pushed after it
C33_Witness ==
    /\ Len(pushLog) >= 3
    /\ pushLog[1].op = "manifest" /\ pushLog[1].res # PushOk
    /\ pushLog[2] = Reg("pushParent", <<ParentRef>>, 0, 0, PushOk)
    /\ pushLog[3].op = "push" /\ pushLog[3].res = PushOk
    /\ Returned /\ result = "ok"

\* Push was called and has returned nil
PushCompleted == tags # <<>> /\ tagIdx > Len(tags)

\* C34: the temporary parent archive exists from the moment the parent image
\* is loaded from it until Push has returned: before Composer.cleanup runs the
\* file is on the host, packageImage leaves no file behind when saving or
\* loading failed, and Build calls Composer.cleanup only after Push completed
\* (or when there is nothing to push).
C34_ParentArchiveKeptUntilPushReturned ==
    /\ (parentArchive # "" /\ Calls("Image.Cleanup") = {}) => parentArchive \in hostFiles
    /\ parentArchive = "" => ParentArchivePath \notin hostFiles
    /\ pc \in {"push", "pushLoop", "pushAttempt"} => Calls("Image.Cleanup") = {}
    /\ Calls("Image.Cleanup") # {} =>
          /\ recipe.publishRegistry # "" => PushCompleted
          /\ ParentArchivePath \notin hostFiles

\* a build on a parent pushed its tag with the archive on the host and then
\* cleaned up
C34_Witness ==
    /\ ~IsScratch(recipe.parent) /\ parentArchive = ParentArchivePath
    /\ PushCompleted /\ Calls("Image.Cleanup") # {}
    /\ ParentArchivePath \notin hostFiles
    /\ Returned /\ result = "ok"

\* C35: after Validate has accepted a recipe, every command's logLevel stored
\* in the recipe is empty or exactly one of INFO, DEBUG, WARNING, ERROR.
C35_AcceptedLogLevelsCanonical ==
    (CallReturned("Validate") /\ ret = "ok") =>
        \A k \in 1..Len(recipe.cmds) : recipe.cmds[k].loglevel \in {""} \cup LogLevels

\* the step is a call of an add*Layer operation that returned an error
AddLayerFailed ==
    /\ Len(log') = Len(log) + 1
    /\ log'[Len(log')].verb \in {"AddBaseLayer", "AddConfigLayer", "AddKernelLayer",
                                 "AddInitrdLayer"}
    /\ ~log'[Len(log')].ok

\* C36: when an add*Layer call returns an error, the Composer's in-memory
\* image (layers, history, labels) is the same as before the call.
C36_FailedAddLayerKeepsImage == [][AddLayerFailed => img' = img]_vars

\* C37: in a Build with initrd requested, whenever AddKernelLayer materializes
\* a new kernel layer, the host file <workDir>/kernel it reads was written by
\* extractKernel earlier in the same Build, for scratch parents and for
\* non-scratch parents without Kernel Layer alike.
C37_NewKernelLayerFromExtractedKernel ==
    \A k \in 1..Len(log) :
        log[k] = Ev("AddKernelLayer", "new", TRUE) =>
            \E j \in 1..(k - 1) : log[j] = Ev("run", "cat vmlinuz", TRUE)

\* generateInitrd ran before event k
DracutBefore(k) == \E j \in 1..(k - 1) : log[j].verb = "run" /\ log[j].arg = "dracut"

\* C38: whenever Build skipped initrd generation because
\* hasLayerWithComment("Initrd Layer") returned true, the addInitrdLayer call
\* that follows, with the empty path, reuses the parent's initrd layer or
\* returns the error of the reuse lookup; it never reaches the fallback that
\* reads the host path.
C38_SkippedGenerationNeverReadsEmptyPath ==
    /\ \A k \in 1..Len(log) :
          (log[k].verb = "AddInitrdLayer" /\ ~DracutBefore(k)) => log[k].arg = "copy"
    /\ pc = "addInitrd" =>
          (initrdPath = "" <=> HasLayerWithComment(img, recipe.parent, InitrdComment))

\* generation was skipped and the initrd layer of the parent was reused
C38_Witness ==
    /\ Happened("AddInitrdLayer", "copy", TRUE)
    /\ ~DracutBefore(Len(log) + 1)
    /\ Returned /\ result = "ok"
    /\ Len(img.manifest) = Len(parentStored.manifest) + 4

\* C39: in every successful Build with initrd requested, on a scratch parent
\* or on a parent whose Kernel Layer is reused, the label
\* com.openchami.image.kernel-version of the resulting image equals the kernel
\* version this Build read from /lib/modules of its working container.
C39_KernelVersionLabelIsDeterminedVersion ==
    (/\ Returned /\ result = "ok" /\ recipe.initrd
     /\ \/ IsScratch(recipe.parent)
        \/ Happened("AddKernelLayer", "copy", TRUE))
        => img.labels.kernel = kernelVersion

(***************************************************************************)
(* Two Builds side by side on one backend storage                          *)
(***************************************************************************)
Builds == {1, 2}

\* the container ID `buildah from` prints for the Build: unique in the storage
ContainerOf(b) == IF b = 1 THEN "work1" ELSE "work2"

\* what the Builds share is storage, mounted and log; the rest belongs to the
\* single Build of Spec and to the calls of SpecCalls
soloVars == <<recipe, parentStored, pc, result, oci, buildLocals, composerVars, packageLocals,
              pushVars, callVars>>

\* a setupContainer that goes through the parent's path for every recipe
FirstStepThroughParent(parent) == "pull"

\* setupContainer, lines 107 and 126: the branch on options.parent
FirstStep(parent) == IF IsScratch(parent) THEN "create" ELSE "pull"

InitInterleaved ==
    /\ builds \in [Builds -> {[parent |-> p, pc |-> FirstStep(p), containerName |-> "",
                               result |-> "none"] : p \in {"scratch", ParentRef}}]
    /\ storage = {}
    /\ mounted = {}
    /\ log = <<>>
    /\ recipe = [parent |-> "", initrd |-> FALSE, squashfs |-> FALSE,
                 publishRegistry |-> "", publishTags |-> <<>>, packages |-> FALSE,
                 copyFiles |-> FALSE, cmds |-> 0, pkgManager |-> "dnf"]
    /\ parentStored = NoImage
    /\ pc = "new"
    /\ result = "none"
    /\ containerName = ""
    /\ mountPoint = ""
    /\ oci = [parentContainer |-> "", parentMountPoint |-> ""]
    /\ kernelVersion = <<>>
    /\ initrdPath = ""
    /\ img = NoImage
    /\ tempDirs = <<>>
    /\ parentArchive = ""
    /\ hostFiles = {}
    /\ tags = <<>>
    /\ tagIdx = 0
    /\ attempt = 0
    /\ lastErr = <<>>
    /\ pushLog = <<>>
    /\ call = NoCall
    /\ disk = {}
    /\ ret = "none"
    /\ proc = NoProcess

\* OCI.PullParentImage of Build b
BuildPullParentImage(b) ==
    /\ builds[b].pc = "pull"
    /\ \E a \in PullAnswers(storage) :
         LET run == PullParentImageRun(builds[b].parent, storage, a.found, a.removed,
                                       a.pulled, a.verified)
         IN  /\ log' = log \o run.events
             /\ storage' = storage \ run.removed
             /\ mounted' = mounted \ run.removed
             /\ builds' = [builds EXCEPT ![b].pc = IF run.ok THEN "mountParent" ELSE "done",
                                         ![b].result = IF run.ok THEN "none" ELSE "err"]
    /\ UNCHANGED soloVars

\* setupContainer of Build b from OCI.MountParent on: the sweep, from and
\* mount, the deferred UnmountParent and the check for an empty mount point
BuildMountParent(b) ==
    /\ builds[b].pc = "mountParent"
    /\ \E removed \in SUBSET storage, fromOk \in BOOLEAN, mountOk \in BOOLEAN,
          rmOk \in BOOLEAN, umountOk \in BOOLEAN, out \in MountOutputs :
         LET swept == SweepEvents(storage, removed)
             left == storage \ removed
             c == ContainerOf(b)
         IN  IF ~fromOk
             THEN /\ storage' = left
                  /\ mounted' = mounted \ removed
                  /\ log' = log \o swept \o <<Ev("from", builds[b].parent, FALSE)>>
                  /\ builds' = [builds EXCEPT ![b].pc = "done", ![b].result = "err"]
             ELSE IF ~mountOk
             THEN /\ storage' = IF rmOk THEN left ELSE left \cup {c}
                  /\ mounted' = mounted \ removed
                  /\ log' = log \o swept \o <<Ev("from", builds[b].parent, TRUE),
                                              Ev("mount", c, FALSE), Ev("rm", c, rmOk)>>
                  /\ builds' = [builds EXCEPT ![b].pc = "done", ![b].result = "err"]
             ELSE /\ storage' = left \cup {c}
                  /\ mounted' = IF umountOk THEN mounted \ (removed \cup {c})
                                ELSE (mounted \ removed) \cup {c}
                  /\ log' = log \o swept \o <<Ev("from", builds[b].parent, TRUE),
                                              Ev("mount", c, TRUE), Ev("umount", c, umountOk)>>
                  /\ builds' = IF out = ""
                               THEN [builds EXCEPT ![b].pc = "done", ![b].result = "err"]
                               ELSE [builds EXCEPT ![b].pc = "body", ![b].containerName = c]
    /\ UNCHANGED soloVars

\* OCI.CreateContainer of Build b
BuildCreateContainer(b) ==
    /\ builds[b].pc = "create"
    /\ \E fromOk \in BOOLEAN :
         /\ log' = Append(log, Ev("from", "scratch", fromOk))
         /\ storage' = IF fromOk THEN storage \cup {ContainerOf(b)} ELSE storage
         /\ builds' = IF fromOk THEN [builds EXCEPT ![b].pc = "mount"]
                      ELSE [builds EXCEPT ![b].pc = "done", ![b].result = "err"]
    /\ UNCHANGED <<soloVars, mounted>>

\* OCI.MountContainer of Build b and the checks setupContainer makes on what
\* it returned; the other Build may have removed the container in between
BuildMountContainer(b) ==
    /\ builds[b].pc = "mount"
    /\ \E mountOk \in BOOLEAN, rmOk \in BOOLEAN, out \in MountOutputs :
         LET c == ContainerOf(b)
         IN  /\ c \notin storage => (~mountOk /\ ~rmOk)
             /\ IF ~mountOk
                THEN /\ storage' = IF rmOk THEN storage \ {c} ELSE storage
                     /\ log' = log \o <<Ev("mount", c, FALSE), Ev("rm", c, rmOk)>>
                     /\ builds' = [builds EXCEPT ![b].pc = "done", ![b].result = "err"]
                     /\ UNCHANGED mounted
                ELSE /\ mounted' = mounted \cup {c}
                     /\ log' = Append(log, Ev("mount", c, TRUE))
                     /\ builds' = IF out = ""
                                  THEN [builds EXCEPT ![b].pc = "done", ![b].result = "err"]
                                  ELSE [builds EXCEPT ![b].pc = "body", ![b].containerName = c]
                     /\ UNCHANGED storage
    /\ UNCHANGED soloVars

\* Build of b from customizeContainer to its return statement: none of these
\* steps creates or removes a container; the deferred Cleanup is pending
BuildBody(b) ==
    /\ builds[b].pc = "body"
    /\ \E ok \in BOOLEAN :
         builds' = [builds EXCEPT ![b].pc = "deferred",
                                  ![b].result = IF ok THEN "ok" ELSE "err"]
    /\ UNCHANGED <<soloVars, storage, mounted, log>>

\* the deferred OCI.Cleanup(containerName) of Build b; umount and rm fail on a
\* container that is no longer in the storage
BuildCleanup(b) ==
    /\ builds[b].pc = "deferred"
    /\ \E umountOk \in BOOLEAN, rmOk \in BOOLEAN :
         LET c == builds[b].containerName
             run == CleanupRun(c, umountOk, rmOk)
         IN  /\ c \notin storage => (~umountOk /\ ~rmOk)
             /\ log' = log \o run.events
             /\ mounted' = IF run.unmounted THEN mounted \ {c} ELSE mounted
             /\ storage' = IF run.removed THEN storage \ {c} ELSE storage
    /\ builds' = [builds EXCEPT ![b].pc = "done"]
    /\ UNCHANGED soloVars

NextInterleaved ==
    \E b \in Builds :
        \/ BuildPullParentImage(b)
        \/ BuildMountParent(b)
        \/ BuildCreateContainer(b)
        \/ BuildMountContainer(b)
        \/ BuildBody(b)
        \/ BuildCleanup(b)

SpecInterleaved == InitInterleaved /\ [][NextInterleaved]_vars

\* this step takes the working container of Build b out of the storage
ContainerRemoved(b) == ContainerOf(b) \in storage /\ ContainerOf(b) \notin storage'

\* this step is the teardown of Build b: its deferred Cleanup, or the rm
\* after its mount failed
OwnTeardown(b) == builds[b].pc \in {"deferred", "mount"} /\ builds'[b] # builds[b]

\* this step is PullParentImage or MountParent of Build o
SweepOf(o) == builds[o].pc \in {"pull", "mountParent"} /\ builds'[o] # builds[o]

\* C40 as stated: when two Builds run interleaved on one backend storage, the
\* working container of each Build is removed only by that Build's own
\* teardown, never by the stale-container sweep of the other Build.
C40_ContainerRemovedOnlyByOwnTeardown ==
    [][\A b \in Builds : ContainerRemoved(b) => OwnTeardown(b)]_vars

\* C40, amended: when two Builds run interleaved on one backend storage, the
\* working container of a Build is removed only by that Build's own teardown
\* or by the stale-container sweep that the other Build performs in
\* PullParentImage or MountParent on a parent other than scratch; a Build from
\* scratch sweeps nothing.
C40_ContainerRemovedByOwnTeardownOrOthersSweep ==
    [][\A b \in Builds :
          ContainerRemoved(b) =>
              \/ OwnTeardown(b)
              \/ \E o \in Builds \ {b} : SweepOf(o) /\ ~IsScratch(builds[o].parent)]_vars

\* the sweep of the other Build removed the working container of a Build that
\* is still before its teardown
C40_Witness ==
    \E b \in Builds :
        /\ builds[b].pc \in {"body", "deferred"}
        /\ ContainerOf(b) \notin storage
        /\ Happened("rm", ContainerOf(b), TRUE)

====
